---- MODULE Spec2Model ----
(***************************************************************************)
(* A model of zenbukko's catalog resolution (services/nnnClient.ts), its   *)
(* retrying JSON fetcher (services/http.ts), its HLS downloader            *)
(* (downloader/hls.ts) and its download orchestrator (commands/download.ts)*)
(*                                                                         *)
(* Each component has its own specification (SpecResolve, SpecFetch,       *)
(* SpecDownload); a specification holds the other components' variables    *)
(* at their initial values.                                                *)
(***************************************************************************)
EXTENDS Integers, Sequences, FiniteSets, TLC

VARIABLES
  \* ---- NnnClient.resolveCourseLessons, step 3 (nnnClient.ts:252-343)
  queue,            \* the work queue built by step 2
  maxConcurrencyParam, \* params.maxConcurrency, a JS number (may be NaN)
  i,                \* the batch loop's index, a JS number
  batch,            \* queue positions of the batch being awaited
  resolved,         \* position -> Pending | Null | CourseLesson (the Promise.all slots)
  lessons,          \* const lessons: CourseLesson[]
  skippedLessons,   \* const skippedLessons
  rpc,              \* "loop" | "await" | "done" ("threw": the call rejected)
  rresult,          \* the returned CourseStructure (NoResult before the return)
  outcome,          \* history: position -> how its resolution ended
  settled,          \* history: the queue positions in the order they settled
  \* ---- fetchJsonWithRetry (http.ts:20-72)
  retries,          \* opts.retries
  attempt,          \* let attempt
  lastError,        \* let lastError
  fpc,              \* "fetch" (loop head) | "backoff" | "returned" ("threw": the call rejected)
  fresult,          \* the returned FetchResult (NoResult before the return)
  waited,           \* the milliseconds of the last delay() (0 before the first)
  requests,         \* history: number of fetch() calls made
  delays,           \* history: number of delay() calls made
  responses,        \* history: what each fetch() call met, in order
  \* ---- downloadCommand (download.ts:249-399), over several runs
  items,            \* the video items of the resolved lessons, each with its playlist URL
  fs,               \* item -> the content of its outFilePath (NoFile when it does not exist)
  run,              \* number of the current run of the command
  dpc,              \* "item" (loop head) | "hls" | "finished" | "failed"
  idx,              \* the item of the loop (1-based)
  downloaded,       \* const downloaded
  \* ---- downloadHlsToFile (hls.ts:19-74), the call made for items[idx]
  hpc,              \* "idle" | "fetchPlaylist" | "fetchMedia" | "segment" (loop head)
                    \* | "awaitResponse" | "reading" | "finally" | "returned" | "threw"
  mediaPlaylistUrl, \* const mediaPlaylistUrl
  segmentUrls,      \* media.segmentUrls
  segIndex,         \* the loop's i (0-based)
  chunksRead,       \* chunks of the current body read and written so far
  herror,           \* the error being thrown (NoError when none)
  streamEnded,      \* writeStream.end() was called
  inflight,         \* history: segment numbers whose request or body is outstanding
  keySeen,          \* history: a playlist fetched by this call held a key line
  created,          \* history: this call created (truncated) the output file
  callSegmentRequests, \* history: segment requests of this call
  callPlaylists,    \* history: the playlist URLs this call requested, in order
  chmodFailed,      \* history: the chmod of the finally block was rejected
  \* ---- history of the runs
  skipped,          \* items this run skipped as already downloaded
  playlistRequests, \* playlist requests of this run
  segmentRequests,  \* segment requests of this run
  prevRunOk,        \* the run before this one finished successfully
  startFs,          \* fs as it was when this run started
  \* ---- downloadCommand's chapter folder names (download.ts:160-187, 249-251), two runs
  courseDetailsChapters, \* course.chapters as getCourseDetails returns them
  courseChapters,   \* const courseChapters.chapters (the sorted list)
  chapterIndexById, \* const chapterIndexById: Map<number, number>
  lessonChapters,   \* the chapterId of each lesson of the run, in lesson order
  lessonPos,        \* the lesson of the loop (1-based)
  lrun,             \* "A" | "B": the run
  lpc,              \* "start" | "loop" | "done"
  dirNames,         \* history: the folder name each run used for each chapter
  \* ---- the legacy chapter folder migration of downloadCommand (download.ts:36-124, 249-265)
  disk,             \* the course directory: path -> node, for the paths that exist
  disk0,            \* history: the course directory before the run
  readdirOrder,     \* the order in which fs.readdir lists names
  migratedChapters, \* const migratedChapters: Set<number>
  mlesson,          \* lessonIndex of the chapter's lesson in the loop
  mpc,              \* "lesson" (loop head) | "mkdir" | "done" | "failed"
  mlog,             \* history: the logger calls of the migration
  \* ---- downloadAllCommand (part_003:26-106)
  courses,          \* const courses: what scrapeMyCoursesDetailed returned
  onDemand,         \* const onDemand
  apos,             \* the course of the loop (1-based index into onDemand)
  failures,         \* const failures
  apc,              \* "start" | "loop" | "course" | "returned" | "threw" | "threwEarly"
  aerror,           \* the failed courses the thrown error lists (<<>> when none)
  attempted,        \* history: the courseId of each downloadCommand call, in order
  courseOutcomes,   \* history: how each downloadCommand call ended
  \* ---- the response normalizers (part_007), applied to payloads of one resource
  nresource,        \* "course" | "chapter" | "lesson": the resource requested
  ncontent,         \* the resource the server describes in its payloads
  ncalls,           \* history: the normalizer calls made, each with input and outcome
  \* ---- the callback of one queue item in step 3 (nnnClient.ts:259-330)
  cbItem,           \* the queue item of the callback
  cbResponse,       \* what the lesson or movie request met: res.ok and the payload
  cbParsed,         \* what getLessonV1 / getMovieV2 gave: a value or a thrown error
  cbReturn,         \* the callback's return value: a CourseLesson, or Null
  cbSkipped,        \* what the callback pushed to skippedLessons
  cbpc,             \* "start" | "got" | "returned" | "caught"
  \* ---- resolveCourseLessons, step 2: the work queue (nnnClient.ts:200-250)
  selectedChapters, \* const selectedChapters, each chapter with the sections the server lists
  limitLessons,     \* params.limitLessons: undefined, NaN, or a number (in halves)
  chapterLessonIds, \* const chapterLessonIds
  workQueue,        \* const queue
  qentry,           \* the entry of the outer loop (1-based)
  qlesson,          \* the lessonId of the inner loop (1-based)
  qpc,              \* "sections" | "inner" | "after" | "resolve" | "done"
  requested,        \* history: the queue items step 3 has requested, in order
  \* ---- SessionStore.load and buildCookieHeader (sessionStore.ts:44-60, 80-128)
  storedSession,    \* the parsed JSON of the session file
  session,          \* the StoredSession load returned
  targetUrl,        \* the URL of the buildCookieHeader call
  nowSec,           \* Date.now() / 1000 at the call
  cookieHeaderOut,  \* what buildCookieHeader returned
  kpc,              \* "file" | "loaded" | "built"
  \* ---- the media file paths of downloadCommand (download.ts:189-283); the run
  \*      also has courseChapters, chapterIndexById and lessonPos of the folder names
  structure,        \* const structure: courseId and lessons of resolveCourseLessons
  paramLessonIds,   \* params.lessonIds
  paramFirstLectureOnly, \* params.firstLectureOnly
  runLessons,       \* const lessons: the lessons of the loop
  chapterLessonIndex, \* const chapterLessonIndex: Map<number, number>
  outFilePaths,     \* history: the outFilePath of every video item of the run
  ppc,              \* "start" | "loop" | "done" | "failed"
  \* ---- downloadCommand with --first-lecture-only (download.ts:154-158, 189-214);
  \*      resolveCourseLessons runs on the variables of the work queue
  unresolvable,     \* the <<chapter, lessonId>> whose getLessonV1 / getMovieV2 call fails
  firstLectureOnly, \* params.firstLectureOnly
  resolvedStructure, \* const structure: lessons and skippedLessons
  selectedLessons,  \* const lessons
  downloadedLessons, \* the lessons whose items the loop downloaded
  flpc,              \* "resolve" | "resolved" | "selected" | "done" | "failed"
  \* ---- NnnClient.resolveFirstLecture (nnnClient.ts:135-178)
  previewChapters,  \* course.chapters as getCourseDetails returns them
  previewSections,  \* chapter.sections as getChapterDetails returned them
  firstChapter,     \* const firstChapter
  firstSection,     \* const firstSection
  detailCalls,      \* history: the get...Details / getLessonV1 / getMovieV2 calls made
  previewResult,    \* the ResolvedLecture returned, or the error thrown
  vpc,              \* "course" | "chapter" | "unit" | "returned" | "threw"
  \* ---- the request headers of downloadCommand's HLS downloads
  \*      (download.ts:233-239, hls.ts:20,31,45)
  dlSession,        \* const session = await store.load()
  dlNow,            \* Date.now() / 1000 at the buildCookieHeader call
  hlsHeaders,       \* const headers: its cookie entry, when it has one
  sentRequests,     \* history: the playlist and segment requests, with their Cookie header
  spc,              \* "session" | "playlist" | "segment" | "done"
  \* ---- chapterDirNameForId for the lessons of a run whose chapters are not all
  \*      in the course chapter list (download.ts:166-187, 249-250); the run has
  \*      the variables of the folder names too
  lookups,          \* history: the chapterDirNameForId calls: chapter, name, warning
  migratedIds,      \* const migratedChapters, for the chapters of this run
  loopEvents,       \* history: the migrations and the lesson folders made, in order
  \* ---- two downloadCommand runs over one course and one output directory
  \*      (download.ts:189-212, 249-299); a run has the variables of the media
  \*      file paths and of the folder names
  courseLessons,    \* the lessons of the course, in chapter-then-section order
  runNumber,        \* 1 | 2
  mediaFiles,       \* the media files of the output directory
  earlierFiles,     \* history: the outFilePath entries of the first run
  skippedFiles      \* history: the paths whose download the second run skipped

resolveVars == <<queue, maxConcurrencyParam, i, batch, resolved, lessons,
                 skippedLessons, rpc, rresult, outcome, settled>>

fetchVars == <<retries, attempt, lastError, fpc, fresult, waited, requests, delays, responses>>

downloadVars == <<items, fs, run, dpc, idx, downloaded, skipped, playlistRequests,
                  segmentRequests, prevRunOk, startFs>>

hlsVars == <<hpc, mediaPlaylistUrl, segmentUrls, segIndex, chunksRead, herror,
             streamEnded, inflight, keySeen, created, callSegmentRequests,
             callPlaylists, chmodFailed>>

\* the history variables only the playlist fetches and the finally block write
hlsHistory == <<callPlaylists, chmodFailed>>

layoutVars == <<courseDetailsChapters, courseChapters, chapterIndexById, lessonChapters,
               lessonPos, lrun, lpc, dirNames>>

migrateVars == <<disk, disk0, readdirOrder, migratedChapters, mlesson, mpc, mlog>>

allVars == <<courses, onDemand, apos, failures, apc, aerror, attempted, courseOutcomes>>

normalizeVars == <<nresource, ncontent, ncalls>>
queueVars == <<selectedChapters, limitLessons, chapterLessonIds, workQueue, qentry, qlesson, qpc,
               requested>>
runsVars == <<courseLessons, runNumber, mediaFiles, earlierFiles, skippedFiles>>
fallbackVars == <<lookups, migratedIds, loopEvents>>
sendVars == <<dlSession, dlNow, hlsHeaders, sentRequests, spc>>
previewVars == <<previewChapters, previewSections, firstChapter, firstSection, detailCalls,
                 previewResult, vpc>>
firstVars == <<unresolvable, firstLectureOnly, resolvedStructure, selectedLessons,
               downloadedLessons, flpc>>
pathVars == <<structure, paramLessonIds, paramFirstLectureOnly, runLessons, chapterLessonIndex,
              outFilePaths, ppc>>
cookieVars == <<storedSession, session, targetUrl, nowSec, cookieHeaderOut, kpc>>
callbackVars == <<cbItem, cbResponse, cbParsed, cbReturn, cbSkipped, cbpc>>

\* the download variables a step of downloadHlsToFile never writes
dlStatic == <<items, run, dpc, idx, downloaded, skipped, prevRunOk, startFs>>

vars == <<resolveVars, fetchVars, downloadVars, hlsVars,
         layoutVars,
         migrateVars,
         allVars,
         normalizeVars,
         callbackVars,
         queueVars,
         cookieVars,
         pathVars,
         firstVars,
         previewVars,
         sendVars,
         fallbackVars,
         runsVars>>

----------------------------------------------------------------------------
\* Bounds of the model

MaxQueue == 5        \* longest work queue
MaxConc == 3         \* largest params.maxConcurrency tried
MaxRetries == 5      \* largest opts.retries tried (the repository passes 3; from 5 on the cap is waited)
MaxItems == 2        \* most video items of a course
MaxRuns == 2         \* runs of downloadCommand over the same output directory
MaxChapters == 3     \* most chapters of a course
MaxChapterLessons == 2  \* most lessons of one chapter
MaxCourses == 3      \* most courses of the account
MaxListLen == 2      \* longest chapter, section or reference list of a payload
MaxCalls == 2        \* normalizer calls on payloads of one resource
MaxSelected == 3     \* most selected chapters of resolveCourseLessons
MaxLimit == 4        \* largest limitLessons
MaxCookies == 2      \* most cookies of a stored session
MaxHeaderLen == 4    \* longest raw cookie header of a legacy session file, in characters
MaxLessons == 3      \* most lessons of a resolved CourseStructure
MaxRequested == 2    \* most ids of --lesson-ids

----------------------------------------------------------------------------
\* Generic helpers

Null == [null |-> TRUE]
NoResult == [none |-> TRUE]
Pending == [pending |-> TRUE]

Min(a, b) == IF a < b THEN a ELSE b
Max(a, b) == IF a > b THEN a ELSE b

RECURSIVE SelectSeqOf(_, _)
\* positions (an ascending sequence) -> the non-null resolved slots, in order
SelectSeqOf(slots, positions) ==
  IF positions = <<>> THEN <<>>
  ELSE LET h == Head(positions)
           rest == SelectSeqOf(slots, Tail(positions))
       IN IF slots[h] = Null THEN rest ELSE <<slots[h]>> \o rest

\* the ascending sequence lo, lo+1, ..., hi (empty when hi < lo)
Range(lo, hi) == [k \in 1..Max(0, hi - lo + 1) |-> lo + k - 1]

----------------------------------------------------------------------------
\* JS numbers, as far as step 3 uses them: an integer or NaN.

Num(v) == [nan |-> FALSE, v |-> v]
NaN == [nan |-> TRUE, v |-> 0]

\* a < b, false when either side is NaN             (nnnClient.ts:256)
JsLess(a, b) == ~a.nan /\ ~b.nan /\ a.v < b.v
\* a + b, NaN when either side is NaN               (nnnClient.ts:256)
JsAdd(a, b) == IF a.nan \/ b.nan THEN NaN ELSE Num(a.v + b.v)
\* Array.prototype.slice's ToIntegerOrInfinity: NaN becomes 0
ToIndex(a) == IF a.nan THEN 0 ELSE a.v

\* Math.max(1, Math.floor(params.maxConcurrency)): NaN stays NaN.
ClampConcurrency(p) == IF p.nan THEN NaN ELSE Num(Max(1, p.v))

maxConcurrency == ClampConcurrency(maxConcurrencyParam)

----------------------------------------------------------------------------
\* The work queue (the input of step 3)

\* Lesson ids are distinct and not in ascending order along the queue.
LessonIdAt(k) == (k * 7) % 10

KindOf(lessonId) == IF lessonId % 2 = 0 THEN "movie" ELSE "lesson"

QueueItem(k, split) ==
  [chapterId |-> IF k <= split THEN 1 ELSE 2,
   lessonId |-> LessonIdAt(k),
   kind |-> KindOf(LessonIdAt(k))]

\* The messages of the errors getLessonV1/getMovieV2 and the normalizers throw.
ErrorMessages(kind) ==
  IF kind = "movie"
  THEN {"Movie details request failed", "Could not find an HLS URL in movie response"}
  ELSE {"Lesson v1 request failed", "Could not find an HLS URL in lesson response"}

\* A successfully resolved item (the fields the claims read).
CourseLesson(item) ==
  [chapterId |-> item.chapterId, lessonId |-> item.lessonId,
   videoUrl |-> <<"hls", item.lessonId>>]

SkippedEntry(item, msg) ==
  [chapterId |-> item.chapterId, lessonId |-> item.lessonId, reason |-> msg]

----------------------------------------------------------------------------
\* resolveCourseLessons, step 3

InitResolve ==
  /\ \E n \in 0..MaxQueue : \E split \in 0..n :
       queue = [k \in 1..n |-> QueueItem(k, split)]
  /\ maxConcurrencyParam \in {Num(v) : v \in (-1)..MaxConc} \cup {NaN}
  /\ i = Num(0)
  /\ batch = <<>>
  /\ resolved = <<>>
  /\ lessons = <<>>
  /\ skippedLessons = <<>>
  /\ rpc = "loop"
  /\ rresult = NoResult
  /\ outcome = [k \in 1..Len(queue) |-> "none"]
  /\ settled = <<>>

\* queue.slice(i, i + maxConcurrency), as queue positions (1-based)
BatchPositions ==
  LET from == Min(ToIndex(i), Len(queue))
      to == Min(Max(ToIndex(JsAdd(i, maxConcurrency)), from), Len(queue))
  IN Range(from + 1, to)

\* for (...; i < queue.length; ...) { const batch = queue.slice(...);
\*   Promise.all(batch.map(async (item) => ...)) : every item of the batch starts.
StartBatch ==
  /\ rpc = "loop"
  /\ JsLess(i, Num(Len(queue)))
  /\ batch' = BatchPositions
  /\ resolved' = [p \in {BatchPositions[k] : k \in 1..Len(BatchPositions)} |-> Pending]
  /\ rpc' = "await"
  /\ UNCHANGED <<queue, maxConcurrencyParam, i, lessons, skippedLessons, rresult, outcome, settled>>

\* (mutant) the callback pushes its lesson itself, as it completes
ResolveOkPushesItself(p) ==
  /\ rpc = "await"
  /\ p \in DOMAIN resolved
  /\ resolved[p] = Pending
  /\ lessons' = Append(lessons, CourseLesson(queue[p]))
  /\ resolved' = [resolved EXCEPT ![p] = Null]
  /\ outcome' = [outcome EXCEPT ![p] = "ok"]
  /\ settled' = Append(settled, p)
  /\ UNCHANGED <<queue, maxConcurrencyParam, i, batch, skippedLessons, rpc, rresult>>

\* one item's async callback returns its CourseLesson (nnnClient.ts:262-321)
ResolveOk(p) ==
  /\ rpc = "await"
  /\ p \in DOMAIN resolved
  /\ resolved[p] = Pending
  /\ resolved' = [resolved EXCEPT ![p] = CourseLesson(queue[p])]
  /\ outcome' = [outcome EXCEPT ![p] = "ok"]
  /\ settled' = Append(settled, p)
  /\ UNCHANGED <<queue, maxConcurrencyParam, i, batch, lessons, skippedLessons, rpc, rresult>>

\* (mutant) no try/catch in the callback: Promise.all rejects and the call throws
ResolveFailAborts(p) ==
  /\ rpc = "await"
  /\ p \in DOMAIN resolved
  /\ resolved[p] = Pending
  /\ \E msg \in ErrorMessages(queue[p].kind) :
       outcome' = [outcome EXCEPT ![p] = msg]
  /\ rpc' = "threw"
  /\ settled' = Append(settled, p)
  /\ UNCHANGED <<queue, maxConcurrencyParam, i, batch, resolved, lessons, skippedLessons, rresult>>

\* one item's async callback catches an error: it pushes to skippedLessons at once
\* and returns null (nnnClient.ts:322-329)
ResolveFail(p) ==
  /\ rpc = "await"
  /\ p \in DOMAIN resolved
  /\ resolved[p] = Pending
  /\ \E msg \in ErrorMessages(queue[p].kind) :
       /\ skippedLessons' = Append(skippedLessons, SkippedEntry(queue[p], msg))
       /\ outcome' = [outcome EXCEPT ![p] = msg]
  /\ resolved' = [resolved EXCEPT ![p] = Null]
  /\ settled' = Append(settled, p)
  /\ UNCHANGED <<queue, maxConcurrencyParam, i, batch, lessons, rpc, rresult>>

\* lessons.push(...resolved.filter(Boolean)), once Promise.all has every slot
JoinPush(ls, slots, positions) == ls \o SelectSeqOf(slots, positions)

JoinBatch ==
  /\ rpc = "await"
  /\ \A p \in DOMAIN resolved : resolved[p] # Pending
  /\ lessons' = JoinPush(lessons, resolved, batch)
  /\ i' = JsAdd(i, maxConcurrency)
  /\ batch' = <<>>
  /\ resolved' = <<>>
  /\ rpc' = "loop"
  /\ UNCHANGED <<queue, maxConcurrencyParam, skippedLessons, rresult, outcome, settled>>

\* the loop ends: build and return the CourseStructure
ReturnStructure ==
  /\ rpc = "loop"
  /\ ~JsLess(i, Num(Len(queue)))
  /\ rresult' = [lessons |-> lessons,
                 skippedLessons |-> IF Len(skippedLessons) > 0 THEN skippedLessons ELSE <<>>]
  /\ rpc' = "done"
  /\ UNCHANGED <<queue, maxConcurrencyParam, i, batch, resolved, lessons, skippedLessons, outcome, settled>>

----------------------------------------------------------------------------
\* fetchJsonWithRetry (services/http.ts)

\* opts of every caller in the repository (nnnClient.ts:75-78)
MinDelayMs == 250
MaxDelayMs == 2000
JitterCapMs == 250
RetryOnStatus(status) == status >= 500

\* What one fetch() call can meet: fetch rejects (a transport failure), or a
\* response arrives with a status; a response with a success status has a body
\* that resp.json() decodes, or one on which resp.json() rejects.
Statuses == {200, 404, 500, 503}
RejectMessages == {"ECONNRESET", "ETIMEDOUT"}
JsonErrorMessage == "Unexpected token < in JSON"
Responses ==
  [kind : {"reject"}, message : RejectMessages]
  \cup [kind : {"response"}, status : Statuses \ {200}]
  \cup [kind : {"response"}, status : {200}, jsonOk : BOOLEAN]

\* Response.ok
RespOk(status) == status >= 200 /\ status <= 299

HttpError(status) == [kind |-> "http_error", status |-> status]
NetworkError(message) == [kind |-> "network_error", message |-> message]
NoError == [undefined |-> TRUE]
\* the value resp.json() decodes
DecodedValue == [json |-> "value"]

InitFetch ==
  /\ retries \in 0..MaxRetries
  /\ attempt = 0
  /\ lastError = NoError
  /\ fpc = "fetch"
  /\ fresult = NoResult
  /\ waited = 0
  /\ requests = 0
  /\ delays = 0
  /\ responses = <<>>

\* return { ok: false, error: err }
ReturnError(err) ==
  /\ fresult' = [ok |-> FALSE, error |-> err]
  /\ fpc' = "returned"
  /\ UNCHANGED lastError

\* lastError = err; fall out of the try statement to the backoff
KeepError(err) ==
  /\ lastError' = err
  /\ fpc' = "backoff"
  /\ UNCHANGED fresult

\* (mutant) the last attempt's exception is rethrown
CatchBlockRethrows(message) ==
  IF attempt = retries
  THEN fpc' = "threw" /\ UNCHANGED <<fresult, lastError>>
  ELSE KeepError(NetworkError(message))

\* catch (e) { ... }                                     (http.ts:53-62)
CatchBlock(message) ==
  IF attempt = retries
  THEN ReturnError(NetworkError(message))
  ELSE KeepError(NetworkError(message))

\* (mutant) the retry predicate is not consulted
HttpErrorBlockRetriesAll(status) ==
  IF attempt = retries
  THEN ReturnError(HttpError(status))
  ELSE KeepError(HttpError(status))

\* if (!resp.ok) { ... }                                 (http.ts:36-48)
HttpErrorBlock(status) ==
  IF ~RetryOnStatus(status) \/ attempt = retries
  THEN ReturnError(HttpError(status))
  ELSE KeepError(HttpError(status))

\* (mutant) the decoded value is kept but the loop goes on
SuccessBlockNoReturn ==
  /\ fpc' = "backoff"
  /\ UNCHANGED <<fresult, lastError>>

\* else { const json = await resp.json(); return { ok: true, value: json } }
SuccessBlock ==
  /\ fresult' = [ok |-> TRUE, value |-> DecodedValue]
  /\ fpc' = "returned"
  /\ UNCHANGED lastError

\* One iteration of the while loop up to the return or the end of the try
\* statement: the fetch() call and the handling of what it met.
FetchAttempt(resp) ==
  /\ fpc = "fetch"
  /\ attempt <= retries
  /\ requests' = requests + 1
  /\ responses' = Append(responses, resp)
  /\ IF resp.kind = "reject" THEN CatchBlock(resp.message)
     ELSE IF ~RespOk(resp.status) THEN HttpErrorBlock(resp.status)
     ELSE IF resp.jsonOk THEN SuccessBlock
     ELSE CatchBlock(JsonErrorMessage)
  /\ UNCHANGED <<retries, attempt, waited, delays>>

\* 2 ** n
RECURSIVE Pow2(_)
Pow2(n) == IF n = 0 THEN 1 ELSE 2 * Pow2(n - 1)

\* (linear, not exponential)
BackoffMsLinear(a) == Min(MaxDelayMs, MinDelayMs * (a + 1))

\* Math.min(opts.maxDelayMs, opts.minDelayMs * 2 ** attempt)
BackoffMs(a) == Min(MaxDelayMs, MinDelayMs * Pow2(a))

\* Math.floor(Math.random() * m) is any integer of 0..m-1 (0 when m = 0); the
\* model draws the two ends of that range.
JitterValues(m) == IF m = 0 THEN {0} ELSE {0, m - 1}

\* the end of the loop body: backoff, jitter, await delay(), attempt++  (http.ts:64-67)
Backoff ==
  /\ fpc = "backoff"
  /\ \E jitter \in JitterValues(Min(JitterCapMs, BackoffMs(attempt))) :
       waited' = BackoffMs(attempt) + jitter
  /\ delays' = delays + 1
  /\ attempt' = attempt + 1
  /\ fpc' = "fetch"
  /\ UNCHANGED <<retries, lastError, fresult, requests, responses>>

\* The return after the loop (http.ts:71) is not an action: for retries >= 0 the
\* loop condition holds whenever the loop head is reached.
----------------------------------------------------------------------------
\* The playlist and segment servers (the input of downloadHlsToFile)

\* A URL is a directory and a file name; a reference on a playlist line is
\* relative (no directory) or absolute.  new URL(ref, baseUrl):
ResolveUrl(ref, baseUrl) ==
  IF ref.dir = "" THEN [dir |-> baseUrl.dir, file |-> ref.file] ELSE ref

Url(dir, file) == [dir |-> dir, file |-> file]
NoRef == Url("", "")

\* The lines of a playlist text, by what parseM3u8 tells apart.
KeyLine == [tag |-> "key", ref |-> NoRef]           \* starts with #EXT-X-KEY
InfLine == [tag |-> "inf", ref |-> NoRef]           \* starts with #EXT-X-STREAM-INF
CommentLine == [tag |-> "comment", ref |-> NoRef]   \* any other line starting with #
BlankLine == [tag |-> "blank", ref |-> NoRef]       \* empty after trim
UriLine(dir, file) == [tag |-> "uri", ref |-> Url(dir, file)]

NotFound == <<[tag |-> "404", ref |-> NoRef]>>

\* A file of the output directory: absent, or present with the chunks written to it.
NoFile == [exists |-> FALSE, content |-> <<>>]
NewFile == [exists |-> TRUE, content |-> <<>>]

\* The playlist texts the servers hold.
ServerText(url) ==
  CASE url = Url("v", "plain.m3u8") ->
         <<CommentLine, UriLine("", "s1.ts"), BlankLine, UriLine("", "s2.ts")>>
    [] url = Url("v", "enc.m3u8") ->
         <<CommentLine, KeyLine, UriLine("", "s1.ts"), UriLine("", "s2.ts")>>
    [] url = Url("v", "none.m3u8") ->
         <<CommentLine, BlankLine>>
    [] url = Url("v", "blank.m3u8") ->
         <<CommentLine, UriLine("", "e.ts")>>
    [] url = Url("m", "master.m3u8") ->
         <<CommentLine, InfLine, UriLine("", "lo.m3u8"), InfLine, UriLine("", "hi.m3u8"),
           InfLine, UriLine("", "top.m3u8")>>
    [] url = Url("m", "top.m3u8") ->
         <<CommentLine, UriLine("", "s1.ts"), UriLine("", "s2.ts")>>
    [] url = Url("m", "mnone.m3u8") ->
         <<InfLine, UriLine("v", "none.m3u8")>>
    [] url = Url("m", "lo.m3u8") ->
         <<CommentLine, UriLine("", "s1.ts")>>
    [] url = Url("m", "hi.m3u8") ->
         <<CommentLine, UriLine("", "s2.ts"), UriLine("", "s1.ts")>>
    [] url = Url("m", "menc.m3u8") ->
         <<InfLine, UriLine("v", "enc.m3u8")>>
    [] OTHER -> NotFound

\* The playlist URLs a lesson can resolve to.
ItemUrls ==
  {Url("v", "plain.m3u8"), Url("v", "enc.m3u8"), Url("v", "none.m3u8"),
   Url("v", "blank.m3u8"), Url("m", "master.m3u8"), Url("m", "menc.m3u8"),
   Url("m", "mnone.m3u8")}

\* The number of chunks reader.read() yields for a segment's body.
BodyChunks(url) ==
  CASE url.file = "s1.ts" -> 1
    [] url.file = "s2.ts" -> 2
    [] OTHER -> 0

\* The k-th chunk of a segment's body.
Chunk(url, k) == [segment |-> url, chunk |-> k]

----------------------------------------------------------------------------
\* parseM3u8 (hls.ts:82-113)

\* text.split(/\r?\n/).map(trim).filter(Boolean)
IsNotBlank(line) == line.tag # "blank"
Lines(text) == SelectSeq(text, IsNotBlank)

EmptyParse == [variantUrls |-> <<>>, segmentUrls |-> <<>>, isEncrypted |-> FALSE]

RECURSIVE ParseLoop(_, _, _, _)
ParseLoop(lines, baseUrl, j, acc) ==
  IF j > Len(lines) THEN acc
  ELSE
    LET line == lines[j] IN
    IF line.tag = "key"
    THEN ParseLoop(lines, baseUrl, j + 1, [acc EXCEPT !.isEncrypted = TRUE])
    ELSE IF line.tag = "inf"
    THEN LET hasNext == j + 1 <= Len(lines) /\ lines[j + 1].tag = "uri"
         IN ParseLoop(lines, baseUrl, j + 1,
                      IF hasNext
                      THEN [acc EXCEPT !.variantUrls =
                              Append(@, ResolveUrl(lines[j + 1].ref, baseUrl))]
                      ELSE acc)
    ELSE IF line.tag = "uri"
    THEN ParseLoop(lines, baseUrl, j + 1,
                   [acc EXCEPT !.segmentUrls = Append(@, ResolveUrl(line.ref, baseUrl))])
    ELSE ParseLoop(lines, baseUrl, j + 1, acc)

parseM3u8(text, baseUrl) == ParseLoop(Lines(text), baseUrl, 1, EmptyParse)

----------------------------------------------------------------------------
\* downloadHlsToFile (hls.ts:19-74), called for items[idx]

EncryptedError == "Encrypted HLS streams are not supported."
NoSegmentsError == "No segments found in HLS playlist."
FetchTextError == "Failed to fetch playlist"
SegmentError == "Failed to fetch segment"
ReadError == "body stream failed"

IdleHls ==
  /\ hpc = "idle"
  /\ mediaPlaylistUrl = NoRef
  /\ segmentUrls = <<>>
  /\ segIndex = 0
  /\ chunksRead = 0
  /\ herror = NoError
  /\ streamEnded = FALSE
  /\ inflight = {}
  /\ keySeen = FALSE
  /\ created = FALSE
  /\ callSegmentRequests = 0
  /\ callPlaylists = <<>>
  /\ chmodFailed = FALSE

\* (a choice of the first declared variant)
FirstVariant(variantUrls) == variantUrls[1]

\* parsed.variantUrls.at(-1)!
LastVariant(variantUrls) == variantUrls[Len(variantUrls)]

HasKeyLine(text) == \E j \in 1..Len(text) : text[j].tag = "key"

\* throw before the write stream exists
ThrowEarly(msg) ==
  /\ hpc' = "threw"
  /\ herror' = [message |-> msg]
  /\ UNCHANGED <<fs, segmentUrls, created>>

\* (an output stream opened before the segment list is looked at)
OpenOutputCreatesFirst(media) ==
  /\ fs' = [fs EXCEPT ![idx] = NewFile]
  /\ created' = TRUE
  /\ segmentUrls' = media.segmentUrls
  /\ IF Len(media.segmentUrls) = 0
     THEN hpc' = "threw" /\ herror' = [message |-> NoSegmentsError]
     ELSE hpc' = "segment" /\ UNCHANGED herror

\* if (media.segmentUrls.length === 0) throw ...; await ensureDir(...);
\* const writeStream = createWriteStream(opts.outFilePath)     (hls.ts:34-40)
OpenOutput(media) ==
  IF Len(media.segmentUrls) = 0
  THEN ThrowEarly(NoSegmentsError)
  ELSE /\ fs' = [fs EXCEPT ![idx] = NewFile]
       /\ created' = TRUE
       /\ segmentUrls' = media.segmentUrls
       /\ hpc' = "segment"
       /\ UNCHANGED herror

\* const playlist = await fetchText(m3u8Url); parse; the encryption check; the
\* choice of the media playlist                                  (hls.ts:20-31)
HlsFetchPlaylist ==
  /\ dpc = "hls"
  /\ hpc = "fetchPlaylist"
  /\ playlistRequests' = playlistRequests + 1
  /\ callPlaylists' = Append(callPlaylists, items[idx])
  /\ UNCHANGED chmodFailed
  /\ \/ \* fetch rejects or the status is not ok
        /\ ThrowEarly(FetchTextError)
        /\ UNCHANGED <<mediaPlaylistUrl, keySeen>>
     \/ /\ ServerText(items[idx]) # NotFound
        /\ LET playlist == ServerText(items[idx])
               parsed == parseM3u8(playlist, items[idx])
           IN /\ keySeen' = (keySeen \/ HasKeyLine(playlist))
              /\ IF parsed.isEncrypted
                 THEN ThrowEarly(EncryptedError) /\ UNCHANGED mediaPlaylistUrl
                 ELSE IF Len(parsed.variantUrls) > 0
                 THEN /\ mediaPlaylistUrl' = LastVariant(parsed.variantUrls)
                      /\ hpc' = "fetchMedia"
                      /\ UNCHANGED <<fs, segmentUrls, created, herror>>
                 ELSE /\ mediaPlaylistUrl' = items[idx]
                      /\ OpenOutput(parseM3u8(playlist, items[idx]))
  /\ UNCHANGED <<dlStatic, segmentRequests, segIndex, chunksRead, streamEnded, inflight,
                 callSegmentRequests>>

\* await fetchText(mediaPlaylistUrl); const media = parseM3u8(...)   (hls.ts:30-36)
\* media.isEncrypted is not read.
HlsFetchMedia ==
  /\ dpc = "hls"
  /\ hpc = "fetchMedia"
  /\ playlistRequests' = playlistRequests + 1
  /\ callPlaylists' = Append(callPlaylists, mediaPlaylistUrl)
  /\ UNCHANGED chmodFailed
  /\ \/ /\ ThrowEarly(FetchTextError)
        /\ UNCHANGED keySeen
     \/ /\ ServerText(mediaPlaylistUrl) # NotFound
        /\ LET text == ServerText(mediaPlaylistUrl)
           IN /\ keySeen' = (keySeen \/ HasKeyLine(text))
              /\ OpenOutput(parseM3u8(text, mediaPlaylistUrl))
  /\ UNCHANGED <<dlStatic, segmentRequests, mediaPlaylistUrl, segIndex, chunksRead,
                 streamEnded, inflight, callSegmentRequests>>

\* the loop head with i < length: onProgress, then fetch(segmentUrl) is issued
HlsRequestSegment ==
  /\ dpc = "hls"
  /\ UNCHANGED hlsHistory
  /\ hpc = "segment"
  /\ segIndex < Len(segmentUrls)
  /\ segmentRequests' = segmentRequests + 1
  /\ callSegmentRequests' = callSegmentRequests + 1
  /\ inflight' = inflight \cup {segIndex + 1}
  /\ hpc' = "awaitResponse"
  /\ UNCHANGED <<dlStatic, fs, playlistRequests, mediaPlaylistUrl, segmentUrls, segIndex,
                 chunksRead, herror, streamEnded, keySeen, created>>


\* throw inside the try statement: control goes to the finally block
ThrowInTry(msg) ==
  /\ hpc' = "finally"
  /\ herror' = [message |-> msg]

\* the response to the segment request arrives (or fetch rejects)   (hls.ts:45-56)
HlsSegmentResponse ==
  /\ dpc = "hls"
  /\ UNCHANGED hlsHistory
  /\ hpc = "awaitResponse"
  /\ \/ \* fetch rejects, or !resp.ok || !resp.body
        /\ ThrowInTry(SegmentError)
        /\ inflight' = inflight \ {segIndex + 1}
     \/ \* the body's reader is taken
        /\ hpc' = "reading"
        /\ UNCHANGED <<herror, inflight>>
  /\ chunksRead' = 0
  /\ UNCHANGED <<dlStatic, fs, playlistRequests, segmentRequests, mediaPlaylistUrl,
                 segmentUrls, segIndex, streamEnded, keySeen, created, callSegmentRequests>>

\* (a stream that put each chunk in front of what it already took)
WriteChunkInFront(content, chunk) == <<chunk>> \o content

\* writeStream.write(Buffer.from(chunk)), and the wait for 'drain' when it
\* returns false: the chunk goes behind what the stream already took.
WriteChunk(content, chunk) == Append(content, chunk)

\* const { value, done } = await reader.read(): a chunk, written to the stream
HlsReadChunk ==
  /\ dpc = "hls"
  /\ UNCHANGED hlsHistory
  /\ hpc = "reading"
  /\ chunksRead < BodyChunks(segmentUrls[segIndex + 1])
  /\ \/ /\ fs' = [fs EXCEPT ![idx].content =
                    WriteChunk(@, Chunk(segmentUrls[segIndex + 1], chunksRead + 1))]
        /\ chunksRead' = chunksRead + 1
        /\ UNCHANGED <<hpc, herror, inflight>>
     \/ \* the body stream fails: reader.read() rejects
        /\ ThrowInTry(ReadError)
        /\ inflight' = inflight \ {segIndex + 1}
        /\ UNCHANGED <<fs, chunksRead>>
  /\ UNCHANGED <<dlStatic, playlistRequests, segmentRequests, mediaPlaylistUrl,
                 segmentUrls, segIndex, streamEnded, keySeen, created, callSegmentRequests>>

\* reader.read() answers done: break, i++
HlsBodyDone ==
  /\ dpc = "hls"
  /\ UNCHANGED hlsHistory
  /\ hpc = "reading"
  /\ chunksRead = BodyChunks(segmentUrls[segIndex + 1])
  /\ inflight' = inflight \ {segIndex + 1}
  /\ segIndex' = segIndex + 1
  /\ chunksRead' = 0
  /\ hpc' = "segment"
  /\ UNCHANGED <<dlStatic, fs, playlistRequests, segmentRequests, mediaPlaylistUrl,
                 segmentUrls, herror, streamEnded, keySeen, created,
                 callSegmentRequests>>

\* the loop head with i = length: the try statement completes
HlsLoopExit ==
  /\ dpc = "hls"
  /\ UNCHANGED hlsHistory
  /\ hpc = "segment"
  /\ segIndex >= Len(segmentUrls)
  /\ hpc' = "finally"
  /\ UNCHANGED <<dlStatic, fs, playlistRequests, segmentRequests, mediaPlaylistUrl,
                 segmentUrls, segIndex, chunksRead, herror, streamEnded, inflight, keySeen,
                 created, callSegmentRequests>>

\* (a finally block that lets the rejection of chmod out)
HlsFinallyChmodThrows ==
  /\ dpc = "hls"
  /\ hpc = "finally"
  /\ streamEnded' = TRUE
  /\ chmodFailed' \in BOOLEAN
  /\ UNCHANGED callPlaylists
  /\ hpc' = IF herror = NoError /\ ~chmodFailed' THEN "returned" ELSE "threw"
  /\ herror' = IF chmodFailed' THEN [message |-> "EPERM"] ELSE herror
  /\ UNCHANGED <<dlStatic, fs, playlistRequests, segmentRequests, mediaPlaylistUrl,
                 segmentUrls, segIndex, chunksRead, inflight, keySeen, created,
                 callSegmentRequests>>

\* finally { writeStream.end(); await fs.chmod(...).catch(() => undefined) }: the
\* chmod may fail, and nothing depends on it; nothing removes the file.
HlsFinally ==
  /\ dpc = "hls"
  /\ hpc = "finally"
  /\ streamEnded' = TRUE
  /\ chmodFailed' \in BOOLEAN
  /\ UNCHANGED callPlaylists
  /\ hpc' = IF herror = NoError THEN "returned" ELSE "threw"
  /\ UNCHANGED <<dlStatic, fs, playlistRequests, segmentRequests, mediaPlaylistUrl,
                 segmentUrls, segIndex, chunksRead, herror, inflight, keySeen, created,
                 callSegmentRequests>>

----------------------------------------------------------------------------
\* downloadCommand's loop over the video items (download.ts:277-398), with
\* --materials and --transcribe off, run again and again over the same output
\* directory and the same CourseStructure

InitDownload ==
  /\ \E n \in 1..MaxItems : items \in [1..n -> ItemUrls]
  /\ fs = [k \in 1..Len(items) |-> NoFile]
  /\ run = 1
  /\ dpc = "item"
  /\ idx = 1
  /\ downloaded = <<>>
  /\ skipped = {}
  /\ playlistRequests = 0
  /\ segmentRequests = 0
  /\ prevRunOk = FALSE
  /\ startFs = fs
  /\ IdleHls

\* (a check that never finds the file)
MediaExistsNever(file) == FALSE

\* fs.stat(outFilePath).then((s) => s.isFile() && s.size > 0).catch(() => false)
MediaExists(file) == file.exists /\ Len(file.content) > 0

\* the item's file is already there: log, push to downloaded, next item
SkipItem ==
  /\ dpc = "item"
  /\ idx <= Len(items)
  /\ MediaExists(fs[idx])
  /\ skipped' = skipped \cup {idx}
  /\ downloaded' = Append(downloaded, idx)
  /\ idx' = idx + 1
  /\ UNCHANGED <<items, fs, run, dpc, playlistRequests, segmentRequests, prevRunOk,
                 startFs, hlsVars>>

\* otherwise: await downloadHlsToFile(new URL(item.videoUrl), ...)
CallHls ==
  /\ dpc = "item"
  /\ idx <= Len(items)
  /\ ~MediaExists(fs[idx])
  /\ dpc' = "hls"
  /\ hpc' = "fetchPlaylist"
  /\ mediaPlaylistUrl' = NoRef
  /\ segmentUrls' = <<>>
  /\ segIndex' = 0
  /\ chunksRead' = 0
  /\ herror' = NoError
  /\ streamEnded' = FALSE
  /\ inflight' = {}
  /\ keySeen' = FALSE
  /\ created' = FALSE
  /\ callSegmentRequests' = 0
  /\ callPlaylists' = <<>>
  /\ chmodFailed' = FALSE
  /\ UNCHANGED <<items, fs, run, idx, downloaded, skipped, playlistRequests,
                 segmentRequests, prevRunOk, startFs>>

\* the call returned: downloaded.push, next item
HlsReturned ==
  /\ dpc = "hls"
  /\ hpc = "returned"
  /\ downloaded' = Append(downloaded, idx)
  /\ idx' = idx + 1
  /\ dpc' = "item"
  /\ UNCHANGED <<items, fs, run, skipped, playlistRequests, segmentRequests, prevRunOk,
                 startFs, hlsVars>>

\* (a loop that takes a failed call for a finished one)
HlsThrewSwallowed ==
  /\ dpc = "hls"
  /\ hpc = "threw"
  /\ downloaded' = Append(downloaded, idx)
  /\ idx' = idx + 1
  /\ dpc' = "item"
  /\ UNCHANGED <<items, fs, run, skipped, playlistRequests, segmentRequests, prevRunOk,
                 startFs, hlsVars>>

\* the call threw: nothing in downloadCommand catches it
HlsThrew ==
  /\ dpc = "hls"
  /\ hpc = "threw"
  /\ dpc' = "failed"
  /\ UNCHANGED <<items, fs, run, idx, downloaded, skipped, playlistRequests,
                 segmentRequests, prevRunOk, startFs, hlsVars>>

\* the loop is over: return { downloaded }
FinishRun ==
  /\ dpc = "item"
  /\ idx > Len(items)
  /\ dpc' = "finished"
  /\ UNCHANGED <<items, fs, run, idx, downloaded, skipped, playlistRequests,
                 segmentRequests, prevRunOk, startFs, hlsVars>>

\* the command is run again, on the files the runs before it left
RunAgain ==
  /\ dpc \in {"finished", "failed"}
  /\ run < MaxRuns
  /\ run' = run + 1
  /\ prevRunOk' = (dpc = "finished")
  /\ startFs' = fs
  /\ dpc' = "item"
  /\ idx' = 1
  /\ downloaded' = <<>>
  /\ skipped' = {}
  /\ playlistRequests' = 0
  /\ segmentRequests' = 0
  /\ UNCHANGED <<items, fs, hlsVars>>

----------------------------------------------------------------------------
\* getCourseChapters (nnnClient.ts:180-186) and the chapter folder names of
\* downloadCommand (download.ts:160-187), for two runs over one course that
\* select different chapters

\* The chapter ids of the course, and what a chapter's `order` can be: absent
\* (hasOrder false) or a number.
ChapterIds == {(k * 7) % 10 : k \in 1..MaxChapters}
Orders == {[hasOrder |-> FALSE, order |-> 0], [hasOrder |-> TRUE, order |-> 1],
           [hasOrder |-> TRUE, order |-> 2]}

\* a CourseChapter: order is optional
Chapter(id, hasOrder, order) == [id |-> id, hasOrder |-> hasOrder, order |-> order]

\* a.order ?? 0
OrderKey(c) == IF c.hasOrder THEN c.order ELSE 0

\* Array.prototype.sort with (a, b) => (a.order ?? 0) - (b.order ?? 0): stable
RECURSIVE InsertSorted(_, _)
InsertSorted(sorted, c) ==
  IF sorted = <<>> THEN <<c>>
  ELSE IF OrderKey(c) - OrderKey(sorted[Len(sorted)]) >= 0
       THEN Append(sorted, c)
       ELSE Append(InsertSorted(SubSeq(sorted, 1, Len(sorted) - 1), c), sorted[Len(sorted)])

RECURSIVE SortByOrder(_)
SortByOrder(list) ==
  IF list = <<>> THEN <<>>
  ELSE InsertSorted(SortByOrder(SubSeq(list, 1, Len(list) - 1)), list[Len(list)])

getCourseChapters(courseChaptersIn) == SortByOrder(courseChaptersIn)

\* Map: get, set, size
EmptyMap == [k \in {} |-> 0]
MapHas(m, k) == k \in DOMAIN m
MapSet(m, k, v) == [x \in DOMAIN m \cup {k} |-> IF x = k THEN v ELSE m[x]]
MapSize(m) == Cardinality(DOMAIN m)

\* String(n), as the sequence of its decimal digits
RECURSIVE Digits(_)
Digits(n) == IF n < 10 THEN <<n>> ELSE Append(Digits(n \div 10), n % 10)

\* s.padStart(width, '0')
PadStart(s, width) ==
  IF Len(s) >= width THEN s ELSE [k \in 1..(width - Len(s)) |-> 0] \o s

\* const chapterPadWidth = Math.max(2, String(courseChapters.chapters.length).length)
chapterPadWidth == Max(2, Len(Digits(Len(courseChapters))))
padChapter(n) == PadStart(Digits(n), chapterPadWidth)

\* (the numbering taken from the chapters of the run's lessons)
NumberedChaptersOfRun(all, ofRun) ==
  SelectSeq(all, LAMBDA c : \E k \in 1..Len(ofRun) : ofRun[k] = c.id)

\* the list whose positions number the folders: courseChapters.chapters
NumberedChapters(all, ofRun) == all

\* for (const [idx, chapter] of courseChapters.chapters.entries())
\*   chapterIndexById.set(chapter.id, idx + 1)
RECURSIVE IndexEntries(_, _)
IndexEntries(list, n) ==
  IF n = 0 THEN EmptyMap
  ELSE MapSet(IndexEntries(list, n - 1), list[n].id, n)

\* chapterDirNameForId(chapterId): the name returned, and the map afterwards
\* (the fallback index is not kept in the map)
chapterDirNameForIdForgets(m, chapterId) ==
  IF ~MapHas(m, chapterId)
  THEN [name |-> padChapter(MapSize(m) + 1), map |-> m, warned |-> TRUE]
  ELSE [name |-> padChapter(m[chapterId]), map |-> m, warned |-> FALSE]

chapterDirNameForId(m, chapterId) ==
  IF ~MapHas(m, chapterId)
  THEN [name |-> padChapter(MapSize(m) + 1), map |-> MapSet(m, chapterId, MapSize(m) + 1),
        warned |-> TRUE]
  ELSE [name |-> padChapter(m[chapterId]), map |-> m, warned |-> FALSE]

InitLayout ==
  /\ \E n \in 1..MaxChapters :
       \E ids \in [1..n -> ChapterIds] :
         \E ord \in [1..n -> Orders] :
           /\ \A a, b \in 1..n : a # b => ids[a] # ids[b]
           /\ courseDetailsChapters =
                [k \in 1..n |-> Chapter(ids[k], ord[k].hasOrder, ord[k].order)]
  /\ courseChapters = <<>>
  /\ chapterIndexById = EmptyMap
  /\ lessonChapters = <<>>
  /\ lessonPos = 0
  /\ lrun = "A"
  /\ lpc = "start"
  /\ dirNames = {}

\* the chapters of the lessons resolveCourseLessons returns for a selection: the
\* selected chapters of the sorted list, in list order (nnnClient.ts:194-197)
LessonChaptersOf(sorted, allowed) ==
  LET sel == SelectSeq(sorted, LAMBDA c : c.id \in allowed)
  IN [k \in 1..Len(sel) |-> sel[k].id]

\* resolveCourseLessons for the --chapters of this run, getCourseChapters, and
\* the filling of chapterIndexById                          (download.ts:158-172)
StartLayoutRun ==
  /\ lpc = "start"
  /\ \E allowed \in SUBSET {courseDetailsChapters[k].id : k \in DOMAIN courseDetailsChapters} :
       /\ allowed # {}
       /\ lessonChapters' = LessonChaptersOf(getCourseChapters(courseDetailsChapters), allowed)
  /\ courseChapters' = getCourseChapters(courseDetailsChapters)
  /\ chapterIndexById' =
       LET list == NumberedChapters(courseChapters', lessonChapters')
       IN IndexEntries(list, Len(list))
  /\ lessonPos' = 1
  /\ lpc' = "loop"
  /\ UNCHANGED <<courseDetailsChapters, lrun, dirNames>>

\* for (const lesson of lessons): const chapterDirName = chapterDirNameForId(...)
LessonChapterDir ==
  /\ lpc = "loop"
  /\ lessonPos <= Len(lessonChapters)
  /\ LET r == chapterDirNameForId(chapterIndexById, lessonChapters[lessonPos])
     IN /\ chapterIndexById' = r.map
        /\ dirNames' = dirNames \cup
             {[run |-> lrun, id |-> lessonChapters[lessonPos], name |-> r.name,
               ofRun |-> lessonChapters]}
  /\ lessonPos' = lessonPos + 1
  /\ UNCHANGED <<courseDetailsChapters, courseChapters, lessonChapters, lrun, lpc>>

\* the loop over the lessons is over
FinishLayoutRun ==
  /\ lpc = "loop"
  /\ lessonPos > Len(lessonChapters)
  /\ lpc' = "done"
  /\ UNCHANGED <<courseDetailsChapters, courseChapters, chapterIndexById, lessonChapters,
                 lessonPos, lrun, dirNames>>

\* the command is run a second time on the same course
SecondLayoutRun ==
  /\ lpc = "done"
  /\ lrun = "A"
  /\ lrun' = "B"
  /\ lpc' = "start"
  /\ courseChapters' = <<>>
  /\ chapterIndexById' = EmptyMap
  /\ lessonChapters' = <<>>
  /\ lessonPos' = 0
  /\ UNCHANGED <<courseDetailsChapters, dirNames>>

----------------------------------------------------------------------------
\* The folder names of a run whose course chapter list is incomplete: the list
\* of getCourseChapters is fetched apart from the resolved lessons
\* (download.ts:158,166), so a lesson's chapter may be missing from it.

\* chapter ids that the course chapter list of the model never holds
UnlistedIds == {9, 6}

\* the course chapter lists: up to MaxChapters chapters with distinct ids
IsChapterList(list) ==
  \E n \in 0..MaxChapters :
    \E ids \in [1..n -> ChapterIds] :
      /\ \A a, b \in 1..n : a # b => ids[a] # ids[b]
      /\ list = [k \in 1..n |-> Chapter(ids[k], FALSE, 0)]

InitFallback ==
  /\ IsChapterList(courseDetailsChapters)
  /\ \E n \in 0..MaxLessons : lessonChapters \in [1..n -> ChapterIds \cup UnlistedIds]
  /\ courseChapters = <<>>
  /\ chapterIndexById = EmptyMap
  /\ lessonPos = 0
  /\ lrun = "A"
  /\ lpc = "start"
  /\ dirNames = {}
  /\ lookups = <<>>
  /\ migratedIds = {}
  /\ loopEvents = <<>>

\* const courseChapters = await client.getCourseChapters(...); chapterIndexById
StartFallbackRun ==
  /\ lpc = "start"
  /\ courseChapters' = getCourseChapters(courseDetailsChapters)
  /\ chapterIndexById' =
       LET list == NumberedChapters(courseChapters', lessonChapters)
       IN IndexEntries(list, Len(list))
  /\ lessonPos' = 1
  /\ lpc' = "loop"
  /\ UNCHANGED <<courseDetailsChapters, lessonChapters, lrun, dirNames, lookups, migratedIds,
                 loopEvents>>

\* what happens in the run, in order: a migrateLegacyChapterDir call, or the
\* fs.mkdir of a lesson folder, at the lesson at position pos of the run
LoopEvent(op, id, dir, pos) == [op |-> op, id |-> id, dir |-> dir, pos |-> pos]

\* (no look at migratedChapters)
MigrationDueAlways(done, chapterId) == TRUE

\* if (!migratedChapters.has(lesson.chapterId))
MigrationDue(done, chapterId) == chapterId \notin done

\* the ways an iteration of the loop ends: it completes, migrateLegacyChapterDir
\* rejects, or the lesson's folder or one of its downloads fails
IterationEnds(due) == {"ok", "lesson throws"} \cup (IF due THEN {"migration throws"} ELSE {})

\* for (const lesson of lessons) { chapterDirNameForId, migration, mkdir, items }
LookupChapterDir ==
  /\ lpc = "loop"
  /\ lessonPos <= Len(lessonChapters)
  /\ LET id == lessonChapters[lessonPos]
         r == chapterDirNameForId(chapterIndexById, id)
         due == MigrationDue(migratedIds, id)
         migration == IF due THEN <<LoopEvent("migrate", id, r.name, lessonPos)>> ELSE <<>>
     IN /\ chapterIndexById' = r.map
        /\ lookups' = Append(lookups, [id |-> id, name |-> r.name, warned |-> r.warned])
        /\ migratedIds' = IF due THEN migratedIds \cup {id} ELSE migratedIds
        /\ \E end \in IterationEnds(due) :
             /\ loopEvents' =
                  IF end = "migration throws" THEN loopEvents \o migration
                  ELSE loopEvents \o migration \o <<LoopEvent("mkdir", id, r.name, lessonPos)>>
             /\ lpc' = IF end = "ok" THEN "loop" ELSE "failed"
  /\ lessonPos' = lessonPos + 1
  /\ UNCHANGED <<courseDetailsChapters, courseChapters, lessonChapters, lrun, dirNames>>

\* the loop over the lessons is over
FinishFallbackRun ==
  /\ lpc = "loop"
  /\ lessonPos > Len(lessonChapters)
  /\ lpc' = "done"
  /\ UNCHANGED <<courseDetailsChapters, courseChapters, chapterIndexById, lessonChapters,
                 lessonPos, lrun, dirNames, lookups, migratedIds, loopEvents>>

IdleFallback == lookups = <<>> /\ migratedIds = {} /\ loopEvents = <<>>

----------------------------------------------------------------------------
\* The legacy chapter folder migration (download.ts:36-124) as the loop over the
\* lessons of one chapter calls it (download.ts:249-265).  The course directory
\* holds regular files and directories.

\* A path is the sequence of its names below the course directory.  A node is a
\* directory or a regular file; a file's content is named after the path where
\* the file was before the run.
DirNode == [kind |-> "dir", content |-> <<>>]
FileNode(origin) == [kind |-> "file", content |-> origin]

MigratedChapterId == 7
legacyName == "chapter-7"           \* `chapter-${chapterId}`
chapterDirName == "03"              \* chapterDirNameForId(lesson.chapterId)
legacyPath == <<legacyName>>        \* path.join(courseDir, legacyName)
numericPath == <<chapterDirName>>   \* path.join(courseDir, chapterDirName)

\* q is p or lies below p
Under(q, p) == Len(q) >= Len(p) /\ SubSeq(q, 1, Len(p)) = p
Parent(p) == SubSeq(p, 1, Len(p) - 1)
Rebase(q, from, to) == to \o SubSeq(q, Len(from) + 1, Len(q))

Exists(d, p) == p \in DOMAIN d
isDir(d, p) == Exists(d, p) /\ d[p].kind = "dir"
Children(d, p) == {q \in DOMAIN d : Len(q) = Len(p) + 1 /\ Under(q, p)}

\* fs.rename(src, dst) succeeds: dst's parent is a directory, and a directory
\* goes to a free path or onto an empty directory, a file to a path that is not
\* a directory
RenameOk(d, src, dst) ==
  /\ Exists(d, src)
  /\ (Len(dst) = 1 \/ isDir(d, Parent(dst)))
  /\ IF isDir(d, src)
     THEN ~Exists(d, dst) \/ (isDir(d, dst) /\ Children(d, dst) = {})
     ELSE ~isDir(d, dst)

Rename(d, src, dst) ==
  LET moved == {q \in DOMAIN d : Under(q, src)}
      kept == {q \in DOMAIN d : ~Under(q, src) /\ ~Under(q, dst)}
  IN [q \in kept \cup {Rebase(m, src, dst) : m \in moved} |->
        IF Under(q, dst) THEN d[Rebase(q, dst, src)] ELSE d[q]]

\* fs.mkdir(p, { recursive: true }) rejects (EEXIST) when p is a regular file
MkdirRejects(d, p) ==
  \E k \in 1..Len(p) : Exists(d, SubSeq(p, 1, k)) /\ ~isDir(d, SubSeq(p, 1, k))

Mkdir(d, p) ==
  [q \in DOMAIN d \cup {SubSeq(p, 1, k) : k \in 1..Len(p)} |->
     IF q \in DOMAIN d THEN d[q] ELSE DirNode]

\* fs.rmdir(p) succeeds on an empty directory
RmdirOk(d, p) == isDir(d, p) /\ Children(d, p) = {}
Rmdir(d, p) == [q \in DOMAIN d \ {p} |-> d[q]]

\* fs.readdir(p): the names below p, in the directory's order
Readdir(d, p, order) == SelectSeq(order, LAMBDA n : Exists(d, Append(p, n)))

\* the state of a moveDirContentsBestEffort call: the disk, fullyMoved, and
\* whether an fs call rejected without a catch
MoveState(d, fullyMoved, threw) == [disk |-> d, fullyMoved |-> fullyMoved, threw |-> threw]

RECURSIVE moveDirContentsBestEffort(_, _, _, _)
RECURSIVE MoveEntries(_, _, _, _, _, _)

\* for (const ent of entries) { ... }                       (download.ts:43-85)
MoveEntries(st, entries, k, srcDir, dstDir, order) ==
  IF k > Len(entries) \/ st.threw THEN st
  ELSE
    LET d == st.disk
        src == Append(srcDir, entries[k])
        dst == Append(dstDir, entries[k])
        next(s) == MoveEntries(s, entries, k + 1, srcDir, dstDir, order)
    IN IF isDir(d, src)
       THEN IF ~isDir(d, dst) /\ RenameOk(d, src, dst)
            THEN next(MoveState(Rename(d, src, dst), st.fullyMoved, FALSE))
            ELSE LET child == moveDirContentsBestEffort(d, src, dst, order)
                 IN IF child.threw THEN MoveState(child.disk, FALSE, TRUE)
                    ELSE IF child.fullyMoved
                    THEN IF RmdirOk(child.disk, src)
                         THEN next(MoveState(Rmdir(child.disk, src), st.fullyMoved, FALSE))
                         ELSE next(MoveState(child.disk, FALSE, FALSE))
                    ELSE next(MoveState(child.disk, FALSE, FALSE))
       ELSE IF Exists(d, dst)
            THEN next(MoveState(d, FALSE, FALSE))
            ELSE IF RenameOk(d, src, dst)
                 THEN next(MoveState(Rename(d, src, dst), st.fullyMoved, FALSE))
                 ELSE next(MoveState(d, FALSE, FALSE))

\* moveDirContentsBestEffort(srcDir, dstDir)                 (download.ts:36-88)
moveDirContentsBestEffort(d, srcDir, dstDir, order) ==
  IF MkdirRejects(d, dstDir) THEN MoveState(d, FALSE, TRUE)
  ELSE MoveEntries(MoveState(Mkdir(d, dstDir), TRUE, FALSE),
                   Readdir(d, srcDir, order), 1, srcDir, dstDir, order)

\* migrateLegacyChapterDir: the disk afterwards, the logger calls, and whether
\* the call rejected                                        (download.ts:90-124)
MigrateResult(d, log, threw) == [disk |-> d, log |-> log, threw |-> threw]

MergeLegacy(d, log, order) ==
  IF MkdirRejects(d, numericPath) THEN MigrateResult(d, log, TRUE)
  ELSE LET m == moveDirContentsBestEffort(Mkdir(d, numericPath), legacyPath, numericPath, order)
       IN IF m.threw THEN MigrateResult(m.disk, log, TRUE)
          ELSE IF m.fullyMoved
          THEN IF RmdirOk(m.disk, legacyPath)
               THEN MigrateResult(Rmdir(m.disk, legacyPath), log \cup {"info: merged"}, FALSE)
               ELSE MigrateResult(m.disk, log \cup {"warn: not empty", "info: merged"}, FALSE)
          ELSE MigrateResult(m.disk, log \cup {"warn: partially merged"}, FALSE)

\* (a migration that leaves the legacy folder alone)
migrateLegacyNever(d, order) == MigrateResult(d, {}, FALSE)

migrateLegacyChapterDir(d, order) ==
  IF ~isDir(d, legacyPath) THEN MigrateResult(d, {}, FALSE)
  ELSE IF ~isDir(d, numericPath)
       THEN IF RenameOk(d, legacyPath, numericPath)
            THEN MigrateResult(Rename(d, legacyPath, numericPath), {"info: renamed"}, FALSE)
            ELSE MergeLegacy(d, {"warn: rename failed"}, order)
       ELSE MergeLegacy(d, {}, order)

\* The names a chapter folder can hold, what can be at each, and the disks the
\* run can find: a legacy folder, and at the numeric path nothing, a regular
\* file or a folder.
EntryNames == {"01", "x"}
InnerName == "f"
Shapes == {"absent", "file", "emptydir", "dir"}
ReaddirOrders == {<<"01", "x", InnerName>>, <<"x", "01", InnerName>>}

FolderPaths(root, shape) ==
  {root} \cup {Append(root, n) : n \in {e \in EntryNames : shape[e] # "absent"}}
         \cup {root \o <<n, InnerName>> : n \in {e \in EntryNames : shape[e] = "dir"}}

FolderNode(root, shape, p) ==
  IF Len(p) = 1 THEN DirNode
  ELSE IF Len(p) = 2 /\ shape[p[2]] = "file" THEN FileNode(p)
  ELSE IF Len(p) = 2 THEN DirNode
  ELSE FileNode(p)

Folder(root, shape) == [p \in FolderPaths(root, shape) |-> FolderNode(root, shape, p)]

NumericStates ==
  {[p \in {} |-> DirNode], [p \in {numericPath} |-> FileNode(numericPath)]}
    \cup {Folder(numericPath, shape) : shape \in [EntryNames -> Shapes]}

\* the union of two disks with disjoint paths
Both(d1, d2) == [p \in DOMAIN d1 \cup DOMAIN d2 |-> IF p \in DOMAIN d1 THEN d1[p] ELSE d2[p]]

\* pad2(lessonIndex), the name of lessonDir                  (download.ts:28,262)
pad2(n) == CASE n = 1 -> "01" [] n = 2 -> "02" [] n = 3 -> "03" [] OTHER -> "04"

InitMigrate ==
  /\ \E shape \in [EntryNames -> Shapes] : \E numeric \in NumericStates :
       disk = Both(Folder(legacyPath, shape), numeric)
  /\ disk0 = disk
  /\ readdirOrder \in ReaddirOrders
  /\ migratedChapters = {}
  /\ mlesson = 1
  /\ mpc = "lesson"
  /\ mlog = {}

\* the first lesson of the chapter in the loop: migratedChapters.add, migrate
MigrateOnFirstLesson ==
  /\ mpc = "lesson"
  /\ MigratedChapterId \notin migratedChapters
  /\ migratedChapters' = migratedChapters \cup {MigratedChapterId}
  /\ LET r == migrateLegacyChapterDir(disk, readdirOrder)
     IN /\ disk' = r.disk
        /\ mlog' = mlog \cup r.log
        /\ mpc' = IF r.threw THEN "failed" ELSE "mkdir"
  /\ UNCHANGED <<disk0, readdirOrder, mlesson>>

\* a later lesson of the chapter: migratedChapters.has(lesson.chapterId)
NoSecondMigration ==
  /\ mpc = "lesson"
  /\ MigratedChapterId \in migratedChapters
  /\ mpc' = "mkdir"
  /\ UNCHANGED <<disk, disk0, readdirOrder, migratedChapters, mlesson, mlog>>

\* await fs.mkdir(lessonDir, { recursive: true }), then the lesson's items
MkdirLessonDir ==
  /\ mpc = "mkdir"
  /\ LET lessonDir == Append(numericPath, pad2(mlesson))
     IN IF MkdirRejects(disk, lessonDir)
        THEN /\ mpc' = "failed"
             /\ UNCHANGED <<disk, mlesson>>
        ELSE /\ disk' = Mkdir(disk, lessonDir)
             /\ IF mlesson < MaxChapterLessons
                THEN mlesson' = mlesson + 1 /\ mpc' = "lesson"
                ELSE mpc' = "done" /\ UNCHANGED mlesson
  /\ UNCHANGED <<disk0, readdirOrder, migratedChapters, mlog>>

----------------------------------------------------------------------------
\* downloadAllCommand (part_003:26-106)

\* the k-th course of the account's list
CourseIdAt(k) == 100 + ((k * 7) % 10)
Course(k, isOnDemand) == [courseId |-> CourseIdAt(k), isOnDemand |-> isOnDemand]

\* the messages a failing downloadCommand rejects with
CourseErrors == {"No lessons resolved to download.", "Failed to fetch segment"}

InitAll ==
  /\ \E n \in 0..MaxCourses : \E flags \in [1..n -> BOOLEAN] :
       courses = [k \in 1..n |-> Course(k, flags[k])]
  /\ onDemand = <<>>
  /\ apos = 0
  /\ failures = <<>>
  /\ apc = "start"
  /\ aerror = <<>>
  /\ attempted = <<>>
  /\ courseOutcomes = <<>>

\* scrapeMyCoursesDetailed, the filter, and the two checks   (part_003:45-64)
ListCourses ==
  /\ apc = "start"
  /\ onDemand' = SelectSeq(courses, LAMBDA c : c.isOnDemand)
  /\ apc' = IF Len(courses) = 0 \/ Len(onDemand') = 0 THEN "threwEarly" ELSE "loop"
  /\ apos' = 1
  /\ UNCHANGED <<courses, failures, aerror, attempted, courseOutcomes>>

\* for (const course of onDemand): await downloadCommand({...})   (part_003:66-90)
CallDownloadCommand ==
  /\ apc = "loop"
  /\ apos <= Len(onDemand)
  /\ attempted' = Append(attempted, onDemand[apos].courseId)
  /\ apc' = "course"
  /\ UNCHANGED <<courses, onDemand, apos, failures, aerror, courseOutcomes>>

\* downloadCommand returned: log, next course                 (part_003:91)
CourseFinished ==
  /\ apc = "course"
  /\ courseOutcomes' = Append(courseOutcomes, "ok")
  /\ apos' = apos + 1
  /\ apc' = "loop"
  /\ UNCHANGED <<courses, onDemand, failures, aerror, attempted>>

\* (a catch block that gives up on the remaining courses)
CourseFailedStops(msg) ==
  /\ apc = "course"
  /\ courseOutcomes' = Append(courseOutcomes, msg)
  /\ failures' = Append(failures, [courseId |-> onDemand[apos].courseId, error |-> msg])
  /\ aerror' = failures'
  /\ apc' = "threw"
  /\ UNCHANGED <<courses, onDemand, apos, attempted>>

\* downloadCommand rejected: catch, failures.push, next course   (part_003:92-97)
CourseFailed(msg) ==
  /\ apc = "course"
  /\ courseOutcomes' = Append(courseOutcomes, msg)
  /\ failures' = Append(failures, [courseId |-> onDemand[apos].courseId, error |-> msg])
  /\ apos' = apos + 1
  /\ apc' = "loop"
  /\ UNCHANGED <<courses, onDemand, aerror, attempted>>

\* after the loop: throw the summary of the failures, or return   (part_003:100-105)
EndOfCourses ==
  /\ apc = "loop"
  /\ apos > Len(onDemand)
  /\ IF Len(failures) > 0
     THEN apc' = "threw" /\ aerror' = failures
     ELSE apc' = "returned" /\ UNCHANGED aerror
  /\ UNCHANGED <<courses, onDemand, apos, failures, attempted, courseOutcomes>>

----------------------------------------------------------------------------
\* The response normalizers (part_007).  A payload is a JSON object with the keys
\* the schemas look at; zod objects ignore every other key.

\* optional values (a key that may be missing)
NoStr == [some |-> FALSE, v |-> ""]
SomeStr(s) == [some |-> TRUE, v |-> s]
NoNum == [some |-> FALSE, v |-> 0]
SomeNum(n) == [some |-> TRUE, v |-> n]
NoList == [some |-> FALSE, v |-> <<>>]
SomeList(l) == [some |-> TRUE, v |-> l]

\* ...(x ? { key: x } : {}): the key is there for a non-empty string only
Truthy(o) == IF o.some /\ o.v # "" THEN o ELSE NoStr

\* a ?? b
Coalesce(a, b) == IF a.some THEN a ELSE b

\* the outcome of a normalizer call
Returned(v) == [threw |-> FALSE, value |-> v]
ZodError == [threw |-> TRUE, value |-> "ZodError"]
NoHlsUrlError == [threw |-> TRUE, value |-> "Could not find an HLS URL in lesson response"]

\* (the current shape taken whenever it matches)
LegacyWinsOnlyAlone(legacySuccess, currentSuccess) == legacySuccess /\ ~currentSuccess

\* if (legacy.success) return ...: the legacy shape is tried first
LegacyWins(legacySuccess, currentSuccess) == legacySuccess

\* ---- parseCourseDetails (part_007:34-82)

\* the object under `data` or under `course`: kind says whether the key is
\* missing ("none"), fails the schema ("invalid") or passes it ("valid")
CoursePart(kind, title, chapters) == [kind |-> kind, title |-> title, chapters |-> chapters]
NoCoursePart == CoursePart("none", NoStr, <<>>)
CoursePayload(data, course) == [data |-> data, course |-> course]

NormalizeCourseChapter(c) == [id |-> c.id, title |-> Truthy(c.title), order |-> c.order]
NormalizeCoursePart(part) ==
  [title |-> Truthy(part.title),
   chapters |-> [k \in 1..Len(part.chapters) |-> NormalizeCourseChapter(part.chapters[k])]]

parseCourseDetails(input) ==
  IF LegacyWins(input.data.kind = "valid", input.course.kind = "valid")
  THEN Returned(NormalizeCoursePart(input.data))
  ELSE IF input.course.kind = "valid"
       THEN Returned(NormalizeCoursePart(input.course))
       ELSE ZodError

\* ---- parseChapterDetails (part_007:84-151)

\* content_id: missing, a number, or a string (its characters, decimal digits)
NoContentId == [form |-> "none", num |-> 0, str |-> <<>>]
NumContentId(n) == [form |-> "number", num |-> n, str |-> <<>>]
StrContentId(digits) == [form |-> "string", num |-> 0, str |-> digits]

\* Number(s) for a string of decimal digits (Number('') is 0)
RECURSIVE Number(_)
Number(s) == IF s = <<>> THEN 0 ELSE 10 * Number(SubSeq(s, 1, Len(s) - 1)) + s[Len(s)]

LegacySection(id, title, section_type, content_id) ==
  [id |-> id, title |-> title, section_type |-> section_type, content_id |-> content_id]
CurrentSection(id, title, resource_type) ==
  [id |-> id, title |-> title, resource_type |-> resource_type]

LegacyChapterPart(kind, title, sections) == [kind |-> kind, title |-> title, sections |-> sections]
CurrentChapterPart(kind, title, sections) == [kind |-> kind, title |-> title, sections |-> sections]
NoLegacyChapterPart == LegacyChapterPart("none", NoStr, <<>>)
NoCurrentChapterPart == CurrentChapterPart("none", NoStr, NoList)
\* data, chapter (with or without chapter.sections) and the sibling key sections
ChapterPayload(data, chapter, sections) ==
  [data |-> data, chapter |-> chapter, sections |-> sections]

NormalizeLegacySection(s) ==
  [id |-> IF s.content_id.form = "string" THEN Number(s.content_id.str)
          ELSE IF s.content_id.form = "number" THEN s.content_id.num
          ELSE s.id,
   title |-> Truthy(s.title),
   kind |-> IF s.section_type = "lesson" THEN "lesson" ELSE "other"]

NormalizeCurrentSection(s) ==
  [id |-> s.id,
   title |-> Truthy(s.title),
   kind |-> IF s.resource_type = SomeStr("lesson") THEN "lesson"
            ELSE IF s.resource_type = SomeStr("movie") THEN "movie"
            ELSE "other"]

\* ChapterDetailsCurrentSchema: the first member of the union that matches
CurrentChapterSuccess(input) ==
  /\ input.chapter.kind = "valid"
  /\ input.chapter.sections.some \/ input.sections.some

\* 'sections' in current ? current.sections : current.chapter.sections, where
\* the first member of the union drops the sibling key
CurrentChapterSections(input) ==
  IF input.chapter.sections.some THEN input.chapter.sections.v ELSE input.sections.v

parseChapterDetails(input) ==
  IF LegacyWins(input.data.kind = "valid", CurrentChapterSuccess(input))
  THEN Returned([title |-> Truthy(input.data.title),
                 sections |-> [k \in 1..Len(input.data.sections) |->
                                 NormalizeLegacySection(input.data.sections[k])]])
  ELSE IF CurrentChapterSuccess(input)
       THEN Returned([title |-> Truthy(input.chapter.title),
                      sections |-> [k \in 1..Len(CurrentChapterSections(input)) |->
                                      NormalizeCurrentSection(CurrentChapterSections(input)[k])]])
       ELSE ZodError

\* ---- parseLessonV1 (part_007:153-268, 310-383)

Reference(title, content_url) == [title |-> title, content_url |-> content_url]
LegacyLessonPart(kind, title, video_url, references) ==
  [kind |-> kind, title |-> title, video_url |-> video_url, references |-> references]
\* an element of lesson.contents, lesson.units or lesson.items
LessonPartIn(title, video_url, hls, references) ==
  [title |-> title, video_url |-> video_url, hls |-> hls, references |-> references]
CurrentLessonPart(kind, title, video_url, hls, references, contents, units, itemList) ==
  [kind |-> kind, title |-> title, video_url |-> video_url, hls |-> hls,
   references |-> references, contents |-> contents, units |-> units, items |-> itemList]
NoLegacyLessonPart == LegacyLessonPart("none", NoStr, "", NoList)
NoCurrentLessonPart == CurrentLessonPart("none", NoStr, NoStr, NoStr, NoList, <<>>, <<>>, <<>>)
LessonPayload(data, lesson) == [data |-> data, lesson |-> lesson]

normalizeRefs(refs) ==
  [k \in 1..Len(refs) |-> [title |-> Truthy(refs[k].title), contentUrl |-> refs[k].content_url]]

\* the parts of the lesson that have a video URL                (part_007:345-357)
RECURSIVE NormalizeParts(_, _)
NormalizeParts(partsSource, lessonRefsRaw) ==
  IF partsSource = <<>> THEN <<>>
  ELSE LET p == partsSource[1]
           videoUrl == Coalesce(p.video_url, p.hls)
           rest == NormalizeParts(Tail(partsSource), lessonRefsRaw)
       IN IF ~videoUrl.some \/ videoUrl.v = "" THEN rest
          ELSE <<[title |-> Truthy(p.title), videoUrl |-> videoUrl.v,
                  references |-> normalizeRefs(Coalesce(p.references, SomeList(lessonRefsRaw)).v)]>>
               \o rest

Lesson(title, videoUrl, references, parts) ==
  [title |-> title, videoUrl |-> videoUrl, references |-> references, parts |-> parts]

NormalizeCurrentLesson(lesson) ==
  LET lessonRefsRaw == Coalesce(lesson.references, SomeList(<<>>)).v
      partsSource == IF Len(lesson.contents) > 0 THEN lesson.contents
                     ELSE IF Len(lesson.units) > 0 THEN lesson.units
                     ELSE lesson.items
      parts == NormalizeParts(partsSource, lessonRefsRaw)
      videoUrl == Coalesce(lesson.video_url, lesson.hls)
  IN IF Len(parts) > 0
     THEN Returned(Lesson(Truthy(lesson.title), parts[1].videoUrl, parts[1].references,
                          SomeList(parts)))
     ELSE IF ~videoUrl.some \/ videoUrl.v = "" THEN NoHlsUrlError
     ELSE Returned(Lesson(Truthy(lesson.title), videoUrl.v, normalizeRefs(lessonRefsRaw), NoList))

parseLessonV1(input) ==
  IF LegacyWins(input.data.kind = "valid", input.lesson.kind = "valid")
  THEN Returned(Lesson(Truthy(input.data.title), input.data.video_url,
                       normalizeRefs(Coalesce(input.data.references, SomeList(<<>>)).v), NoList))
  ELSE IF input.lesson.kind = "valid"
       THEN NormalizeCurrentLesson(input.lesson)
       ELSE ZodError

\* ---- the payloads the server sends for one resource, in either shape

ListsUpTo(S, n) == UNION {[1..k -> S] : k \in 0..n}

CourseTitles == {NoStr, SomeStr(""), SomeStr("Math")}
CourseChapters == [id : {31}, title : {NoStr, SomeStr("Limits")}, order : {NoNum, SomeNum(0), SomeNum(1)}]
CourseContents == [title : CourseTitles, chapters : ListsUpTo(CourseChapters, MaxListLen)]

SectionKinds == {"lesson", "movie", "other"}
ChapterSections == [id : {12}, title : {NoStr, SomeStr("Intro")}, kind : SectionKinds]
ChapterContents == [title : {NoStr, SomeStr("Limits")}, sections : ListsUpTo(ChapterSections, MaxListLen)]

VideoUrls == {"https://v/a.m3u8"}
References == [title : {NoStr, SomeStr("Slides")}, content_url : {"https://r/1.pdf"}]
LessonContents ==
  [title : {NoStr, SomeStr("Intro")}, videoUrl : VideoUrls, references : ListsUpTo(References, MaxListLen)]

\* a second resource, different from c in every field that can differ
OtherCourse(c) ==
  [title |-> SomeStr("Physics"),
   chapters |-> [k \in 1..Len(c.chapters) |->
                   [id |-> c.chapters[k].id + 1, title |-> SomeStr("Waves"), order |-> SomeNum(5)]]
                \o <<[id |-> 39, title |-> SomeStr("Waves"), order |-> SomeNum(5)]>>]
OtherChapter(c) ==
  [title |-> SomeStr("Waves"),
   sections |-> [k \in 1..Len(c.sections) |->
                   [id |-> c.sections[k].id + 1, title |-> SomeStr("Outro"), kind |-> "lesson"]]
                \o <<[id |-> 19, title |-> SomeStr("Outro"), kind |-> "lesson"]>>]
OtherLesson(c) ==
  [title |-> SomeStr("Outro"), videoUrl |-> "https://v/b.m3u8",
   references |-> c.references \o <<[title |-> SomeStr("Notes"), content_url |-> "https://r/2.pdf"]>>]

\* the course c under `data` (legacy) or under `course` (current): one schema
CoursePartOf(c) == CoursePart("valid", c.title, c.chapters)
LegacyCoursePayload(c) == CoursePayload(CoursePartOf(c), NoCoursePart)
CurrentCoursePayload(c) == CoursePayload(NoCoursePart, CoursePartOf(c))
CoursePayloads(c) ==
  {LegacyCoursePayload(c), CurrentCoursePayload(c),
   CoursePayload(CoursePartOf(c), CoursePartOf(OtherCourse(c))),
   CoursePayload(CoursePart("invalid", SomeStr("Physics"), <<>>), CoursePartOf(c)),
   CoursePayload(CoursePart("invalid", c.title, <<>>), NoCoursePart),
   CoursePayload(NoCoursePart, CoursePart("invalid", c.title, <<>>))}

\* section_type / resource_type of a section kind; a section that is neither a
\* lesson nor a movie carries some other word, or (current shape) none
TypeWord(kind) == IF kind = "other" THEN "exercise" ELSE kind
\* how a legacy payload carries the id of a section: in id, or in content_id
\* as a number or as a string, id then being the id of the section row
IdStyles == {"id", "number", "string"}
RowId(id) == id + 50
Decimal(n) == IF n < 10 THEN <<n>> ELSE <<n \div 10, n % 10>>
LegacySectionOf(s, idStyle) ==
  LegacySection(IF idStyle = "id" THEN s.id ELSE RowId(s.id), s.title, TypeWord(s.kind),
                IF idStyle = "id" THEN NoContentId
                ELSE IF idStyle = "number" THEN NumContentId(s.id)
                ELSE StrContentId(Decimal(s.id)))
CurrentSectionOf(s, typed) ==
  CurrentSection(s.id, s.title,
                 IF s.kind = "other" /\ ~typed THEN NoStr ELSE SomeStr(TypeWord(s.kind)))
LegacyChapterPartOf(c, idStyle) ==
  LegacyChapterPart("valid", c.title,
                    [k \in 1..Len(c.sections) |-> LegacySectionOf(c.sections[k], idStyle)])
CurrentSectionsOf(c, typed) ==
  [k \in 1..Len(c.sections) |-> CurrentSectionOf(c.sections[k], typed)]
LegacyChapterPayload(c, idStyle) ==
  ChapterPayload(LegacyChapterPartOf(c, idStyle), NoCurrentChapterPart, NoList)
\* the sections inside chapter, or beside it
CurrentChapterPayload(c, typed, inside) ==
  IF inside
  THEN ChapterPayload(NoLegacyChapterPart,
                      CurrentChapterPart("valid", c.title, SomeList(CurrentSectionsOf(c, typed))), NoList)
  ELSE ChapterPayload(NoLegacyChapterPart,
                      CurrentChapterPart("valid", c.title, NoList), SomeList(CurrentSectionsOf(c, typed)))
LegacyChapterPayloads(c) == {LegacyChapterPayload(c, idStyle) : idStyle \in IdStyles}
CurrentChapterPayloads(c) ==
  {CurrentChapterPayload(c, typed, inside) : typed \in BOOLEAN, inside \in BOOLEAN}
ChapterPayloads(c) ==
  LegacyChapterPayloads(c) \cup CurrentChapterPayloads(c) \cup
  {ChapterPayload(LegacyChapterPartOf(c, "id"),
                  CurrentChapterPart("valid", SomeStr("Waves"), SomeList(CurrentSectionsOf(OtherChapter(c), TRUE))),
                  NoList),
   ChapterPayload(LegacyChapterPart("invalid", SomeStr("Waves"), <<>>),
                  CurrentChapterPart("valid", c.title, NoList),
                  SomeList(CurrentSectionsOf(c, TRUE))),
   ChapterPayload(NoLegacyChapterPart,
                  CurrentChapterPart("valid", c.title, SomeList(CurrentSectionsOf(c, TRUE))),
                  SomeList(CurrentSectionsOf(OtherChapter(c), TRUE))),
   ChapterPayload(NoLegacyChapterPart, CurrentChapterPart("valid", c.title, NoList), NoList)}

\* references: the key may be left out when there are none
RefsKeys(refs) == IF refs = <<>> THEN {NoList, SomeList(refs)} ELSE {SomeList(refs)}
LegacyLessonPartOf(c, refsKey) == LegacyLessonPart("valid", c.title, c.videoUrl, refsKey)
\* the video URL in lesson.video_url, or in lesson.archive.url.hls
CurrentLessonPartOf(c, refsKey, inArchive) ==
  CurrentLessonPart("valid", c.title,
                    IF inArchive THEN NoStr ELSE SomeStr(c.videoUrl),
                    IF inArchive THEN SomeStr(c.videoUrl) ELSE NoStr,
                    refsKey, <<>>, <<>>, <<>>)
LegacyLessonPayloads(c) ==
  {LessonPayload(LegacyLessonPartOf(c, refsKey), NoCurrentLessonPart) : refsKey \in RefsKeys(c.references)}
CurrentLessonPayloads(c) ==
  {LessonPayload(NoLegacyLessonPart, CurrentLessonPartOf(c, refsKey, inArchive)) :
     refsKey \in RefsKeys(c.references), inArchive \in BOOLEAN}
\* a lesson in parts: one without a video, one with its own references, one
\* that takes the references of the lesson
PartsOf(c) ==
  <<LessonPartIn(SomeStr("Quiz"), NoStr, NoStr, NoList),
    LessonPartIn(SomeStr("Part 1"), SomeStr(c.videoUrl), NoStr, SomeList(<<>>)),
    LessonPartIn(NoStr, NoStr, SomeStr("https://v/b.m3u8"), NoList)>>
LessonPayloads(c) ==
  LegacyLessonPayloads(c) \cup CurrentLessonPayloads(c) \cup
  {LessonPayload(LegacyLessonPartOf(c, SomeList(c.references)),
                 CurrentLessonPartOf(OtherLesson(c), SomeList(OtherLesson(c).references), FALSE)),
   LessonPayload(LegacyLessonPart("invalid", SomeStr("Outro"), "", NoList),
                 CurrentLessonPartOf(c, SomeList(c.references), TRUE)),
   LessonPayload(NoLegacyLessonPart,
                 CurrentLessonPart("valid", c.title, NoStr, NoStr, SomeList(c.references),
                                   <<>>, PartsOf(c), <<>>)),
   LessonPayload(NoLegacyLessonPart,
                 CurrentLessonPart("valid", c.title, NoStr, NoStr, SomeList(c.references),
                                   <<>>, <<>>, <<>>)),
   LessonPayload(NoLegacyLessonPart, NoCurrentLessonPart)}

\* the payloads the server may send for the resource requested
PayloadsFor(resource) ==
  IF nresource # resource THEN {}
  ELSE IF resource = "course" THEN CoursePayloads(ncontent)
  ELSE IF resource = "chapter" THEN ChapterPayloads(ncontent)
  ELSE LessonPayloads(ncontent)

InitNormalize ==
  /\ nresource \in {"course", "chapter", "lesson"}
  /\ ncontent \in (IF nresource = "course" THEN CourseContents
                   ELSE IF nresource = "chapter" THEN ChapterContents
                   ELSE LessonContents)
  /\ ncalls = <<>>

Call(input, output) == [input |-> input, output |-> output]

\* getCourseDetails: parseCourseDetails(res.json)
CallParseCourseDetails(input) ==
  /\ nresource = "course"
  /\ Len(ncalls) < MaxCalls
  /\ ncalls' = Append(ncalls, Call(input, parseCourseDetails(input)))
  /\ UNCHANGED <<nresource, ncontent>>

\* getChapterDetails: parseChapterDetails(res.json)
CallParseChapterDetails(input) ==
  /\ nresource = "chapter"
  /\ Len(ncalls) < MaxCalls
  /\ ncalls' = Append(ncalls, Call(input, parseChapterDetails(input)))
  /\ UNCHANGED <<nresource, ncontent>>

\* getLesson: parseLessonV1(res.json)
CallParseLessonV1(input) ==
  /\ nresource = "lesson"
  /\ Len(ncalls) < MaxCalls
  /\ ncalls' = Append(ncalls, Call(input, parseLessonV1(input)))
  /\ UNCHANGED <<nresource, ncontent>>

IdleNormalize ==
  /\ nresource = "none"
  /\ ncontent = <<>>
  /\ ncalls = <<>>

----------------------------------------------------------------------------
\* The callback of one queue item (nnnClient.ts:259-330): the request, the
\* schema check and the normalizer of the lesson or movie, then the
\* CourseLesson or the skippedLessons entry.

\* z.string().url(): the strings new URL() accepts
WellFormedUrls ==
  {"https://v/a.m3u8", "https://v/h.m3u8", "https://v/m1.m3u8", "https://v/m2.m3u8",
   "https://v/contents.m3u8", "https://v/units.m3u8", "https://v/items.m3u8",
   "https://r/1.pdf"}
IsUrl(s) == s \in WellFormedUrls
OptUrlOk(o) == o.some => IsUrl(o.v)

\* u.trim(), for the strings of the model
Trim(s) == IF s = " " THEN "" ELSE s

\* references: z.array(z.object({ title, content_url: z.string().min(1) })).optional()
RefsOk(refs) == refs.some => \A k \in DOMAIN refs.v : refs.v[k].content_url # ""

PartsOk(list) ==
  \A k \in DOMAIN list :
    OptUrlOk(list[k].video_url) /\ OptUrlOk(list[k].hls) /\ RefsOk(list[k].references)

\* LessonV1LegacySchema and LessonV1CurrentSchema on the object under data / lesson
LessonV1LegacySchemaOk(d) == IsUrl(d.video_url) /\ RefsOk(d.references)
LessonV1CurrentSchemaOk(l) ==
  /\ OptUrlOk(l.video_url)
  /\ OptUrlOk(l.hls)
  /\ RefsOk(l.references)
  /\ PartsOk(l.contents) /\ PartsOk(l.units) /\ PartsOk(l.items)

\* the outcome of a schema on a key: missing, failing or passing
Checked(part, ok) ==
  [part EXCEPT !.kind = IF part.kind = "none" THEN "none" ELSE IF ok THEN "valid" ELSE "invalid"]

\* parseLessonV1 on a raw payload
ParseRawLesson(raw) ==
  parseLessonV1(LessonPayload(Checked(raw.data, LessonV1LegacySchemaOk(raw.data)),
                              Checked(raw.lesson, LessonV1CurrentSchemaOk(raw.lesson))))

\* ---- parseMovieV2 (part_007:270-308)

\* a movie payload: videos[k] is videos[k].files.hls.url when it is there
MoviePayload(title, videos, references) ==
  [title |-> title, videos |-> videos, references |-> references]
MovieV2SchemaOk(m) ==
  /\ m.videos.some => \A k \in DOMAIN m.videos.v : OptUrlOk(m.videos.v[k])
  /\ m.references.some =>
       \A k \in DOMAIN m.references.v :
         m.references.v[k].some => \A n \in DOMAIN m.references.v[k].v : IsUrl(m.references.v[k].v[n])

\* m.videos?.[0]?.files?.hls?.url
MovieVideoUrl(m) ==
  IF m.videos.some /\ Len(m.videos.v) > 0 THEN m.videos.v[1] ELSE NoStr

RECURSIVE FlatMapContentUrls(_)
FlatMapContentUrls(refs) ==
  IF refs = <<>> THEN <<>>
  ELSE Coalesce(Head(refs), SomeList(<<>>)).v \o FlatMapContentUrls(Tail(refs))

RECURSIVE NonBlank(_)
\* .filter((u) => typeof u === 'string' && u.trim().length > 0)
NonBlank(urls) ==
  IF urls = <<>> THEN <<>>
  ELSE (IF Trim(Head(urls)) # "" THEN <<Head(urls)>> ELSE <<>>) \o NonBlank(Tail(urls))

NoHlsUrlInMovieError == [threw |-> TRUE, value |-> "Could not find an HLS URL in movie response"]

\* (videoUrl ?? '' instead of the throw)
parseMovieV2Defaulting(m) ==
  IF ~MovieV2SchemaOk(m) THEN ZodError
  ELSE Returned([title |-> Truthy(m.title), videoUrl |-> Coalesce(MovieVideoUrl(m), SomeStr("")).v,
                 referencePageUrls |->
                   NonBlank(FlatMapContentUrls(Coalesce(m.references, SomeList(<<>>)).v))])

parseMovieV2(m) ==
  IF ~MovieV2SchemaOk(m) THEN ZodError
  ELSE LET videoUrl == MovieVideoUrl(m)
       IN IF ~videoUrl.some \/ videoUrl.v = "" THEN NoHlsUrlInMovieError
          ELSE Returned([title |-> Truthy(m.title), videoUrl |-> videoUrl.v,
                         referencePageUrls |->
                           NonBlank(FlatMapContentUrls(Coalesce(m.references, SomeList(<<>>)).v))])

\* ---- the payloads of the model

\* the parts a lesson may list under contents, units or items: a part without
\* a video, and a part with one (in video_url, or in archive.url.hls for units)
NoVideoPart == LessonPartIn(SomeStr("Quiz"), NoStr, NoStr, NoList)
VideoPart(field) ==
  IF field = "units"
  THEN LessonPartIn(NoStr, NoStr, SomeStr("https://v/units.m3u8"), NoList)
  ELSE LessonPartIn(SomeStr(field), SomeStr("https://v/" \o field \o ".m3u8"), NoStr,
                    SomeList(<<Reference(NoStr, " ")>>))
PartLists(field) == ListsUpTo({NoVideoPart, VideoPart(field)}, MaxListLen)

RawReferences == {NoList, SomeList(<<Reference(SomeStr("Slides"), "https://r/1.pdf")>>)}

RawCurrentLessons ==
  {CurrentLessonPart("given", SomeStr("Intro"), video_url, hls,
                     SomeList(<<Reference(SomeStr("Slides"), "https://r/1.pdf")>>),
                     contents, units, itemList) :
     video_url \in {NoStr, SomeStr("https://v/a.m3u8"), SomeStr("")},
     hls \in {NoStr, SomeStr("https://v/h.m3u8")},
     contents \in PartLists("contents"),
     units \in PartLists("units"),
     itemList \in PartLists("items")}
RawLegacyLessons ==
  {LegacyLessonPart("given", title, video_url, references) :
     title \in {NoStr, SomeStr("Intro")},
     video_url \in {"", "https://v/a.m3u8"},
     references \in RawReferences \cup {SomeList(<<Reference(NoStr, "")>>)}}
RawLessonPayloads ==
  {LessonPayload(NoLegacyLessonPart, l) : l \in RawCurrentLessons}
  \cup {LessonPayload(d, NoCurrentLessonPart) : d \in RawLegacyLessons}
  \cup {LessonPayload(d, CurrentLessonPart("given", NoStr, NoStr, SomeStr("https://v/h.m3u8"), NoList,
                                           <<>>, <<>>, <<>>)) : d \in RawLegacyLessons}
  \cup {LessonPayload(NoLegacyLessonPart, NoCurrentLessonPart)}

MovieVideos == {NoStr, SomeStr(""), SomeStr("https://v/m1.m3u8"), SomeStr("https://v/m2.m3u8")}
MovieReferences ==
  {NoList, SomeList(<<NoList>>),
   SomeList(<<SomeList(<<"https://r/1.pdf">>), NoList>>),
   SomeList(<<SomeList(<<"">>)>>)}
MoviePayloads ==
  {MoviePayload(title, videos, references) :
     title \in {NoStr, SomeStr(""), SomeStr("Movie")},
     videos \in {NoList} \cup {SomeList(l) : l \in ListsUpTo(MovieVideos, MaxListLen)},
     references \in MovieReferences}

\* res of fetchJsonWithRetry: ok with a payload, or an error
OkResponse(value) == [ok |-> TRUE, value |-> value]
FailedResponse == [ok |-> FALSE, value |-> <<>>]

CallbackItems ==
  [chapterId : {1}, lessonId : {12}, kind : {"lesson", "movie"}, lessonTitle : {NoStr, SomeStr("Section")}]

InitCallback ==
  /\ cbItem \in CallbackItems
  /\ cbResponse \in {FailedResponse} \cup
       {OkResponse(p) : p \in (IF cbItem.kind = "movie" THEN MoviePayloads ELSE RawLessonPayloads)}
  /\ cbParsed = <<>>
  /\ cbReturn = Null
  /\ cbSkipped = <<>>
  /\ cbpc = "start"

RequestFailed(what) == [threw |-> TRUE, value |-> what \o " request failed"]

\* await this.getMovieV2(...)                          (nnnClient.ts:119-133, 263)
GetMovieV2 ==
  /\ cbpc = "start"
  /\ cbItem.kind = "movie"
  /\ cbParsed' = IF ~cbResponse.ok THEN RequestFailed("Movie details")
                 ELSE parseMovieV2(cbResponse.value)
  /\ cbpc' = "got"
  /\ UNCHANGED <<cbItem, cbResponse, cbReturn, cbSkipped>>

\* await this.getLessonV1(...)                         (nnnClient.ts:101-117, 277)
GetLessonV1 ==
  /\ cbpc = "start"
  /\ cbItem.kind # "movie"
  /\ cbParsed' = IF ~cbResponse.ok THEN RequestFailed("Lesson v1")
                 ELSE ParseRawLesson(cbResponse.value)
  /\ cbpc' = "got"
  /\ UNCHANGED <<cbItem, cbResponse, cbReturn, cbSkipped>>

\* references -> referencePageUrls
RefUrls(refs) == NonBlank([k \in DOMAIN refs |-> refs[k].contentUrl])

\* lesson.parts.map(...).filter(x => x.videoUrl.length > 0) (nnnClient.ts:285-298)
RECURSIVE VideoItemsFrom(_, _)
VideoItemsFrom(parts, pos) ==
  IF pos > Len(parts) THEN <<>>
  ELSE (IF parts[pos].videoUrl # ""
        THEN <<[index |-> pos, title |-> Truthy(parts[pos].title), videoUrl |-> parts[pos].videoUrl,
                referencePageUrls |-> RefUrls(parts[pos].references)]>>
        ELSE <<>>) \o VideoItemsFrom(parts, pos + 1)

\* the CourseLesson of a movie                          (nnnClient.ts:264-274)
MovieCourseLesson(item, movie) ==
  [chapterId |-> item.chapterId, lessonId |-> item.lessonId,
   videoUrl |-> movie.videoUrl,
   videoItems |-> <<>>,
   referencePageUrls |-> movie.referencePageUrls,
   lessonTitle |-> Truthy(Coalesce(movie.title, item.lessonTitle))]

\* the CourseLesson of a lesson                         (nnnClient.ts:278-321)
LessonCourseLesson(item, lesson) ==
  LET videoItems == IF lesson.parts.some /\ Len(lesson.parts.v) > 0
                    THEN VideoItemsFrom(lesson.parts.v, 1) ELSE <<>>
  IN [chapterId |-> item.chapterId, lessonId |-> item.lessonId,
      videoUrl |-> IF Len(videoItems) > 0 THEN videoItems[1].videoUrl ELSE lesson.videoUrl,
      videoItems |-> videoItems,
      referencePageUrls |->
        IF lesson.parts.some /\ Len(lesson.parts.v) > 0
        THEN (IF Len(videoItems) > 0 THEN videoItems[1].referencePageUrls ELSE <<>>)
        ELSE RefUrls(lesson.references),
      lessonTitle |-> Truthy(Coalesce(lesson.title, item.lessonTitle))]

\* return result
CallbackReturns ==
  /\ cbpc = "got"
  /\ ~cbParsed.threw
  /\ cbReturn' = IF cbItem.kind = "movie" THEN MovieCourseLesson(cbItem, cbParsed.value)
                 ELSE LessonCourseLesson(cbItem, cbParsed.value)
  /\ cbpc' = "returned"
  /\ UNCHANGED <<cbItem, cbResponse, cbParsed, cbSkipped>>

\* catch (e) { skippedLessons.push(...); return null; }  (nnnClient.ts:322-329)
CallbackCatches ==
  /\ cbpc = "got"
  /\ cbParsed.threw
  /\ cbSkipped' = Append(cbSkipped, SkippedEntry(cbItem, cbParsed.value))
  /\ cbReturn' = Null
  /\ cbpc' = "caught"
  /\ UNCHANGED <<cbItem, cbResponse, cbParsed>>

IdleCallback ==
  /\ cbItem = <<>>
  /\ cbResponse = <<>>
  /\ cbParsed = <<>>
  /\ cbReturn = Null
  /\ cbSkipped = <<>>
  /\ cbpc = "idle"

----------------------------------------------------------------------------
\* resolveCourseLessons, step 2 (nnnClient.ts:200-250): the sections of the
\* selected chapters, then the work queue under limitLessons.

\* the section kinds a chapter may list, in section order
SectionPatterns ==
  {<<>>, <<"other">>, <<"lesson">>, <<"lesson", "movie">>, <<"movie", "other", "lesson">>}

\* section ids are distinct within a chapter, and repeat from chapter to chapter
SectionIdAt(k) == (k * 7) % 10
SectionsOf(pattern) ==
  [k \in DOMAIN pattern |->
     [id |-> SectionIdAt(k), kind |-> pattern[k],
      title |-> IF k % 2 = 1 THEN SomeStr("Section") ELSE NoStr]]

\* params.limitLessons: undefined, NaN, or h / 2 for an integer h
NoLimit == [set |-> FALSE, nan |-> FALSE, halves |-> 0]
NaNLimit == [set |-> TRUE, nan |-> TRUE, halves |-> 0]
Limit(h) == [set |-> TRUE, nan |-> FALSE, halves |-> h]
\* Math.floor
Floor(h) == h \div 2

InitQueue ==
  /\ \E n \in 1..MaxSelected : \E patterns \in [1..n -> SectionPatterns] :
       selectedChapters = [k \in 1..n |-> [id |-> 10 + k, sections |-> SectionsOf(patterns[k])]]
  /\ limitLessons \in {NoLimit, NaNLimit} \cup {Limit(h) : h \in (-2)..(2 * MaxLimit)}
  /\ chapterLessonIds = <<>>
  /\ workQueue = <<>>
  /\ qentry = 1
  /\ qlesson = 1
  /\ qpc = "sections"
  /\ requested = <<>>

\* details.sections.filter(s => s.kind === 'lesson' || s.kind === 'movie')
LectureSections(sections) == SelectSeq(sections, LAMBDA s : s.kind \in {"lesson", "movie"})

\* for (const s of lectureSections) map.set(s.id, ...): the last set wins
KindsMap(lectureSections) ==
  [id \in {lectureSections[k].id : k \in DOMAIN lectureSections} |->
     lectureSections[CHOOSE k \in DOMAIN lectureSections :
                       /\ lectureSections[k].id = id
                       /\ \A n \in DOMAIN lectureSections :
                            lectureSections[n].id = id => n <= k].kind]
TitlesMap(lectureSections) ==
  LET titled == SelectSeq(lectureSections, LAMBDA s : Truthy(s.title).some)
  IN [id \in {titled[k].id : k \in DOMAIN titled} |->
        titled[CHOOSE k \in DOMAIN titled :
                 /\ titled[k].id = id
                 /\ \A n \in DOMAIN titled : titled[n].id = id => n <= k].title]

\* for (const chapter of selectedChapters) { getChapterDetails; chapterLessonIds.push }
FetchChapterSections ==
  /\ qpc = "sections"
  /\ qentry <= Len(selectedChapters)
  /\ LET lectureSections == LectureSections(selectedChapters[qentry].sections)
     IN chapterLessonIds' =
          Append(chapterLessonIds,
                 [chapter |-> selectedChapters[qentry].id,
                  lessonIds |-> [k \in DOMAIN lectureSections |-> lectureSections[k].id],
                  lessonTitles |-> TitlesMap(lectureSections),
                  lessonKinds |-> KindsMap(lectureSections)])
  /\ qentry' = qentry + 1
  /\ UNCHANGED <<selectedChapters, limitLessons, workQueue, qlesson, qpc, requested>>

\* the loop over the chapters is over: the loops over chapterLessonIds start
SectionsFetched ==
  /\ qpc = "sections"
  /\ qentry > Len(selectedChapters)
  /\ qentry' = 1
  /\ qlesson' = 1
  /\ qpc' = "inner"
  /\ UNCHANGED <<selectedChapters, limitLessons, chapterLessonIds, workQueue, requested>>

\* (the cap counted per chapter)
CapCountOfChapter(q, chapterId) ==
  Len(SelectSeq(q, LAMBDA e : e.chapter = chapterId))

\* queue.length, which the cap is compared with
CapCount(q, chapterId) == Len(q)

\* typeof limitLessons === 'number' && Number.isFinite(limitLessons) &&
\*   queue.length >= Math.max(0, Math.floor(limitLessons))
CapReached(q, chapterId) ==
  /\ limitLessons.set
  /\ ~limitLessons.nan
  /\ CapCount(q, chapterId) >= Max(0, Floor(limitLessons.halves))

\* one turn of the inner loop: break at the cap, or push the item
EnqueueLesson ==
  /\ qpc = "inner"
  /\ qentry <= Len(chapterLessonIds)
  /\ qlesson <= Len(chapterLessonIds[qentry].lessonIds)
  /\ LET entry == chapterLessonIds[qentry]
         lessonId == entry.lessonIds[qlesson]
     IN IF CapReached(workQueue, entry.chapter)
        THEN /\ qpc' = "after"
             /\ UNCHANGED <<workQueue, qlesson>>
        ELSE /\ workQueue' =
                  Append(workQueue,
                         [chapter |-> entry.chapter, lessonId |-> lessonId,
                          kind |-> IF lessonId \in DOMAIN entry.lessonKinds
                                   THEN entry.lessonKinds[lessonId] ELSE "lesson",
                          lessonTitle |-> IF lessonId \in DOMAIN entry.lessonTitles
                                          THEN entry.lessonTitles[lessonId] ELSE NoStr])
             /\ qlesson' = qlesson + 1
             /\ UNCHANGED qpc
  /\ UNCHANGED <<selectedChapters, limitLessons, chapterLessonIds, qentry, requested>>

\* the inner loop has gone through the lessonIds of the entry
InnerLoopEnds ==
  /\ qpc = "inner"
  /\ qentry <= Len(chapterLessonIds)
  /\ qlesson > Len(chapterLessonIds[qentry].lessonIds)
  /\ qpc' = "after"
  /\ UNCHANGED <<selectedChapters, limitLessons, chapterLessonIds, workQueue, qentry, qlesson,
                 requested>>

\* after the inner loop: break the outer loop at the cap, or go to the next entry
AfterEntry ==
  /\ qpc = "after"
  /\ IF CapReached(workQueue, chapterLessonIds[qentry].chapter)
     THEN /\ qpc' = "resolve"
          /\ UNCHANGED <<qentry, qlesson>>
     ELSE /\ qentry' = qentry + 1
          /\ qlesson' = 1
          /\ qpc' = "inner"
  /\ UNCHANGED <<selectedChapters, limitLessons, chapterLessonIds, workQueue, requested>>

\* the outer loop has gone through chapterLessonIds
QueueBuilt ==
  /\ qpc = "inner"
  /\ qentry > Len(chapterLessonIds)
  /\ qpc' = "resolve"
  /\ UNCHANGED <<selectedChapters, limitLessons, chapterLessonIds, workQueue, qentry, qlesson,
                 requested>>

\* step 3 calls getMovieV2 or getLessonV1 once for an item of the queue
\*                                                      (nnnClient.ts:256-277)
RequestQueued ==
  /\ qpc = "resolve"
  /\ Len(requested) < Len(workQueue)
  /\ requested' = Append(requested, workQueue[Len(requested) + 1])
  /\ UNCHANGED <<selectedChapters, limitLessons, chapterLessonIds, workQueue, qentry, qlesson, qpc>>

\* the batches are over
AllRequested ==
  /\ qpc = "resolve"
  /\ Len(requested) = Len(workQueue)
  /\ qpc' = "done"
  /\ UNCHANGED <<selectedChapters, limitLessons, chapterLessonIds, workQueue, qentry, qlesson,
                 requested>>

IdleQueue ==
  /\ selectedChapters = <<>>
  /\ limitLessons = NoLimit
  /\ chapterLessonIds = <<>>
  /\ workQueue = <<>>
  /\ qentry = 0
  /\ qlesson = 0
  /\ qpc = "idle"
  /\ requested = <<>>

----------------------------------------------------------------------------
\* SessionStore.load and buildCookieHeader (sessionStore.ts).  A string is the
\* sequence of its characters; a host name or a path is written with a label
\* or a path segment as one character.

StartsWith(s, prefix) == Len(s) >= Len(prefix) /\ SubSeq(s, 1, Len(prefix)) = prefix
EndsWith(s, suffix) ==
  Len(s) >= Len(suffix) /\ SubSeq(s, Len(s) - Len(suffix) + 1, Len(s)) = suffix

\* s.indexOf(ch), 1-based; 0 for JS's -1
IndexOf(s, ch) ==
  IF \E k \in DOMAIN s : s[k] = ch
  THEN CHOOSE k \in DOMAIN s : s[k] = ch /\ \A n \in 1..(k - 1) : s[n] # ch
  ELSE 0

\* s.trim()
RECURSIVE TrimStart(_)
TrimStart(s) == IF s # <<>> /\ Head(s) = " " THEN TrimStart(Tail(s)) ELSE s
RECURSIVE TrimEnd(_)
TrimEnd(s) == IF s # <<>> /\ s[Len(s)] = " " THEN TrimEnd(SubSeq(s, 1, Len(s) - 1)) ELSE s
TrimString(s) == TrimEnd(TrimStart(s))

\* s.split(ch)
RECURSIVE Split(_, _)
Split(s, ch) ==
  IF IndexOf(s, ch) = 0 THEN <<s>>
  ELSE <<SubSeq(s, 1, IndexOf(s, ch) - 1)>> \o Split(SubSeq(s, IndexOf(s, ch) + 1, Len(s)), ch)

\* parts.join(sep)
RECURSIVE Join(_, _)
Join(parts, sep) ==
  IF parts = <<>> THEN <<>>
  ELSE IF Len(parts) = 1 THEN parts[1]
  ELSE parts[1] \o sep \o Join(Tail(parts), sep)

\* a StoredCookie; domain, path and expires are optional
StoredCookie(name, value, domain, cookiePath, expires) ==
  [name |-> name, value |-> value, domain |-> domain, path |-> cookiePath, expires |-> expires]

\* parseCookieHeader: one part of the header -> its cookie   (sessionStore.ts:116-126)
CookieOfPair(pair) ==
  LET at == IndexOf(pair, "=")
  IN StoredCookie(IF at > 0 THEN TrimString(SubSeq(pair, 1, at - 1)) ELSE TrimString(pair),
                  IF at > 0 THEN TrimString(SubSeq(pair, at + 1, Len(pair))) ELSE <<>>,
                  SomeList(<<".", "nnn", ".", "ed", ".", "nico">>), SomeList(<<"/">>), NoNum)

parseCookieHeader(cookieHeader) ==
  LET parts == Split(cookieHeader, ";")
      trimmed == [k \in DOMAIN parts |-> TrimString(parts[k])]
      pairs == SelectSeq(trimmed, LAMBDA p : p # <<>>)
      cookies == [k \in DOMAIN pairs |-> CookieOfPair(pairs[k])]
  IN SelectSeq(cookies, LAMBDA c : Len(c.name) > 0)

\* the parsed session file, in the new or in the legacy shape
StoredNew(cookies) == [shape |-> "new", cookies |-> cookies]
StoredLegacy(rawHeader) == [shape |-> "legacy", cookies |-> rawHeader]

\* SessionStore.load, for a file that exists                (sessionStore.ts:49-59)
LoadResult(stored) ==
  IF stored.shape = "new"
  THEN [cookies |-> stored.cookies, hasCookieHeader |-> FALSE, cookieHeader |-> <<>>]
  ELSE [cookies |-> parseCookieHeader(stored.cookies), hasCookieHeader |-> TRUE,
        cookieHeader |-> stored.cookies]

domainMatches(cookieDomain, requestHost) ==
  LET cd == IF StartsWith(cookieDomain, <<".">>) THEN Tail(cookieDomain) ELSE cookieDomain
  IN requestHost = cd \/ EndsWith(requestHost, <<".">> \o cd)

pathMatches(cookiePath, requestPath) ==
  IF ~StartsWith(requestPath, <<"/">>) THEN FALSE
  ELSE IF ~StartsWith(cookiePath, <<"/">>) THEN FALSE
  ELSE IF cookiePath = <<"/">> THEN TRUE
  ELSE StartsWith(requestPath, cookiePath)

\* (expires === -1 not special-cased)
NotExpiredByTimeOnly(c, now) == ~c.expires.some \/ c.expires.v > now

\* c.expires === undefined || c.expires === -1 || c.expires > nowSec
NotExpired(c, now) == ~c.expires.some \/ c.expires.v = -1 \/ c.expires.v > now

\* the filter of buildCookieHeader                          (sessionStore.ts:91-96)
PassesFilter(c, url, now) ==
  /\ NotExpired(c, now)
  /\ domainMatches(Coalesce(c.domain, SomeList(url.hostname)).v, url.hostname)
  /\ pathMatches(Coalesce(c.path, SomeList(<<"/">>)).v, url.pathname)

\* `${c.name}=${c.value}`
PairString(c) == c.name \o <<"=">> \o c.value

\* (the first pair of a name is kept)
MapSetKeepFirst(m, name, pair) ==
  IF \E k \in DOMAIN m : m[k].name = name THEN m
  ELSE Append(m, [name |-> name, pair |-> pair])

\* byName.set(name, pair) on a Map, which keeps the position of the first set
MapSetOrdered(m, name, pair) ==
  IF \E k \in DOMAIN m : m[k].name = name
  THEN [k \in DOMAIN m |-> IF m[k].name = name THEN [name |-> name, pair |-> pair] ELSE m[k]]
  ELSE Append(m, [name |-> name, pair |-> pair])

\* for (const pair of pairs) { ... byName.set(name, pair) } (sessionStore.ts:100-105)
RECURSIVE ByName(_, _)
ByName(pairs, n) ==
  IF n = 0 THEN <<>>
  ELSE LET pair == pairs[n]
           at == IndexOf(pair, "=")
           name == IF at > 0 THEN SubSeq(pair, 1, at - 1) ELSE pair
       IN MapSetOrdered(ByName(pairs, n - 1), name, pair)

\* (the raw header is never used)
buildCookieHeaderFromCookies(s, url, now) ==
  LET kept == SelectSeq(s.cookies, LAMBDA c : PassesFilter(c, url, now))
      pairs == [k \in DOMAIN kept |-> PairString(kept[k])]
      byName == ByName(pairs, Len(pairs))
  IN Join([k \in DOMAIN byName |-> byName[k].pair], <<";", " ">>)

buildCookieHeader(s, url, now) ==
  IF s.hasCookieHeader /\ TrimString(s.cookieHeader) # <<>>
  THEN s.cookieHeader
  ELSE LET kept == SelectSeq(s.cookies, LAMBDA c : PassesFilter(c, url, now))
           pairs == [k \in DOMAIN kept |-> PairString(kept[k])]
           byName == ByName(pairs, Len(pairs))
       IN Join([k \in DOMAIN byName |-> byName[k].pair], <<";", " ">>)

\* ---- the sessions and target URLs of the model

\* Date.now() / 1000 at the call
NowValues == {1000}
\* a browser may hold a cookie without a name
CookieNames == {<<"a">>, <<"b">>, <<>>}
SiteHost == <<"nnn", ".", "ed", ".", "nico">>
CookieDomains == {NoList, SomeList(SiteHost), SomeList(<<".">> \o SiteHost)}
CookiePaths == {NoList, SomeList(<<"/", "v">>)}
CookieExpires(now) == {NoNum, SomeNum(-1), SomeNum(now - 1), SomeNum(now + 1)}
\* the value of a cookie tells its position in the session; it may hold '='
CookieValueAt(k) == IF k = 1 THEN <<"1">> ELSE IF k = 2 THEN <<"2", "=">> ELSE <<"3">>

\* the session file holds up to MaxCookies cookies, in the new shape
IsNewSession(stored, now) ==
  \E n \in 0..MaxCookies :
    \E names \in [1..n -> CookieNames], domains \in [1..n -> CookieDomains],
       paths \in [1..n -> CookiePaths], expires \in [1..n -> CookieExpires(now)] :
      \* (the cookies without a name of the model have no domain and no path)
      /\ \A k \in 1..n : names[k] = <<>> => (domains[k] = NoList /\ paths[k] = NoList)
      /\ stored = StoredNew([k \in 1..n |->
                 StoredCookie(names[k], CookieValueAt(k), domains[k], paths[k], expires[k])])

HeaderChars == {"a", "=", "1", ";", " "}
RawHeaders == ListsUpTo(HeaderChars, MaxHeaderLen)

TargetUrls ==
  {[hostname |-> SiteHost, pathname |-> <<"/">>],
   [hostname |-> <<"www", ".">> \o SiteHost, pathname |-> <<"/", "v", "2">>],
   [hostname |-> <<"www", ".">> \o SiteHost, pathname |-> <<"/">>],
   [hostname |-> <<"example", ".", "com">>, pathname |-> <<"/", "v">>]}

InitCookie ==
  /\ nowSec \in NowValues
  /\ \/ IsNewSession(storedSession, nowSec)
     \/ storedSession \in {StoredLegacy(h) : h \in RawHeaders}
  /\ session = <<>>
  /\ targetUrl = <<>>
  /\ cookieHeaderOut = <<>>
  /\ kpc = "file"

\* const session = await store.load()
LoadSession ==
  /\ kpc = "file"
  /\ session' = LoadResult(storedSession)
  /\ kpc' = "loaded"
  /\ UNCHANGED <<storedSession, targetUrl, nowSec, cookieHeaderOut>>

\* buildCookieHeader(session, url)
BuildCookieHeader(url) ==
  /\ kpc = "loaded"
  /\ targetUrl' = url
  /\ cookieHeaderOut' = buildCookieHeader(session, url, nowSec)
  /\ kpc' = "built"
  /\ UNCHANGED <<storedSession, session, nowSec>>

IdleCookie ==
  /\ storedSession = <<>>
  /\ session = <<>>
  /\ targetUrl = <<>>
  /\ nowSec = 0
  /\ cookieHeaderOut = <<>>
  /\ kpc = "idle"

----------------------------------------------------------------------------
\* The Cookie header of the HLS requests (download.ts:233-239, hls.ts:20,31,45)

\* new URL('https://www.nnn.ed.nico/')
WwwUrl == [hostname |-> <<"www", ".">> \o SiteHost, pathname |-> <<"/">>]

\* the playlist and segment URLs: the video URL of a lesson comes from the
\* server, and a playlist may name its segments on any host
MediaUrls == TargetUrls

\* if (cookie) headers.cookie = cookie
CookieEntry(cookie) == IF cookie # <<>> THEN SomeList(cookie) ELSE NoList

HlsRequest(kind, url, cookie) == [kind |-> kind, url |-> url, cookie |-> cookie]

InitSend ==
  /\ dlNow \in NowValues
  /\ \/ \E h \in RawHeaders : dlSession = LoadResult(StoredLegacy(h))
     \/ \E n \in 0..MaxCookies :
          \E names \in [1..n -> CookieNames \ {<<>>}], domains \in [1..n -> CookieDomains],
             paths \in [1..n -> CookiePaths], expires \in [1..n -> CookieExpires(dlNow)] :
            dlSession = LoadResult(StoredNew([k \in 1..n |->
              StoredCookie(names[k], CookieValueAt(k), domains[k], paths[k], expires[k])]))
  /\ hlsHeaders = NoList
  /\ sentRequests = <<>>
  /\ spc = "session"

\* const cookieForWww = buildCookieHeader(session, new URL('https://www.nnn.ed.nico/'));
\* if (cookieForWww) headers.cookie = cookieForWww;
BuildHeaders ==
  /\ spc = "session"
  /\ hlsHeaders' = CookieEntry(buildCookieHeader(dlSession, WwwUrl, dlNow))
  /\ spc' = "playlist"
  /\ UNCHANGED <<dlSession, dlNow, sentRequests>>

\* fetchText(m3u8Url, opts.headers)                          (hls.ts:20,31,76-77)
RequestPlaylist(url) ==
  /\ spc = "playlist"
  /\ sentRequests' = Append(sentRequests, HlsRequest("playlist", url, hlsHeaders))
  /\ spc' = "segment"
  /\ UNCHANGED <<dlSession, dlNow, hlsHeaders>>

\* fetch(segmentUrl, { headers: opts.headers })              (hls.ts:45)
RequestSegment(url) ==
  /\ spc = "segment"
  /\ sentRequests' = Append(sentRequests, HlsRequest("segment", url, hlsHeaders))
  /\ spc' = "done"
  /\ UNCHANGED <<dlSession, dlNow, hlsHeaders>>

IdleSend ==
  /\ dlSession = <<>>
  /\ dlNow = 0
  /\ hlsHeaders = NoList
  /\ sentRequests = <<>>
  /\ spc = "idle"

----------------------------------------------------------------------------
\* The media file paths of downloadCommand (download.ts:158-283).  A path is the
\* sequence of its parts below outputDir; a part is the sequence of its pieces,
\* a number written with String(n) being the sequence of its digits.

\* a CourseLesson: videoItems are given by their index fields
LessonOfStructure(lessonId, chapterId, videoItems) ==
  [lessonId |-> lessonId, chapterId |-> chapterId, videoItems |-> videoItems]

\* the full course has n chapters, already in the order getCourseChapters keeps
ChapterCounts == {2, 12}
CourseOf(n) == [k \in 1..n |-> Chapter(40 + k, TRUE, k)]
\* the chapters that lessons of the model belong to: the first two and the last
LessonChapterIds(n) == {41, 42, 40 + n}
VideoItemIndexes == {<<>>, <<1>>, <<1, 3>>}
PathCourseIds == {77}
StructureLessonId(k) == 500 + k
RequestedIds == {StructureLessonId(k) : k \in 1..(MaxLessons + 1)}

InitPaths ==
  /\ \E n \in ChapterCounts : courseDetailsChapters = CourseOf(n)
  /\ \E n \in 1..MaxLessons :
       \E chapterOf \in [1..n -> LessonChapterIds(Len(courseDetailsChapters))],
          videoItems \in [1..n -> VideoItemIndexes], courseId \in PathCourseIds :
         /\ \A a, b \in 1..n : a < b => chapterOf[a] <= chapterOf[b]
         /\ structure = [courseId |-> courseId,
                         lessons |-> [k \in 1..n |->
                                        LessonOfStructure(StructureLessonId(k), chapterOf[k], videoItems[k])]]
  /\ paramLessonIds \in {NoList} \cup {SomeList(l) : l \in ListsUpTo(RequestedIds, MaxRequested)}
  /\ paramFirstLectureOnly \in BOOLEAN
  /\ paramFirstLectureOnly => ~paramLessonIds.some
  /\ runLessons = <<>>
  /\ chapterLessonIndex = EmptyMap
  /\ outFilePaths = <<>>
  /\ ppc = "start"
  /\ courseChapters = <<>>
  /\ chapterIndexById = EmptyMap
  /\ lessonChapters = <<>>
  /\ lessonPos = 0
  /\ lrun = "A"
  /\ lpc = "paths"
  /\ dirNames = {}

\* new Map(structure.lessons.map((l) => [l.lessonId, l]))
LessonById(id) ==
  LET k == CHOOSE k \in DOMAIN structure.lessons :
             /\ structure.lessons[k].lessonId = id
             /\ \A j \in DOMAIN structure.lessons : structure.lessons[j].lessonId = id => j <= k
  IN structure.lessons[k]
HasLesson(id) == \E k \in DOMAIN structure.lessons : structure.lessons[k].lessonId = id

\* the ids of --lesson-ids in use                            (download.ts:190)
RequestedLessonIds == IF paramLessonIds.some THEN paramLessonIds.v ELSE <<>>

\* const lessons = (() => { ... })()                        (download.ts:189-212)
LessonsOfRun ==
  IF RequestedLessonIds # <<>>
  THEN [k \in DOMAIN RequestedLessonIds |-> LessonById(RequestedLessonIds[k])]
  ELSE IF paramFirstLectureOnly THEN SubSeq(structure.lessons, 1, Min(1, Len(structure.lessons)))
  ELSE structure.lessons

\* throw new Error('Requested lesson-id(s) could not be resolved ...') and
\* throw new Error('No lessons resolved to download.')   (download.ts:197-205, 214)
MissingRequested == \E k \in DOMAIN RequestedLessonIds : ~HasLesson(RequestedLessonIds[k])
PathsRunThrows == IF MissingRequested THEN TRUE ELSE LessonsOfRun = <<>>

\* getCourseChapters, chapterIndexById and the lessons of the run (download.ts:166-214)
StartPathsRun ==
  /\ ppc = "start"
  /\ ~PathsRunThrows
  /\ courseChapters' = getCourseChapters(courseDetailsChapters)
  /\ chapterIndexById' = IndexEntries(courseChapters', Len(courseChapters'))
  /\ runLessons' = LessonsOfRun
  /\ lessonPos' = 1
  /\ ppc' = "loop"
  /\ UNCHANGED <<courseDetailsChapters, lessonChapters, lrun, lpc, dirNames, structure,
                 paramLessonIds, paramFirstLectureOnly, chapterLessonIndex, outFilePaths>>

PathsRunFails ==
  /\ ppc = "start"
  /\ PathsRunThrows
  /\ ppc' = "failed"
  /\ UNCHANGED <<layoutVars, structure, paramLessonIds, paramFirstLectureOnly, runLessons,
                 chapterLessonIndex, outFilePaths>>

\* (chapterLessonIndex.get(lesson.chapterId) ?? 0) + 1
NextLessonIndex(m, chapterId) == (IF MapHas(m, chapterId) THEN m[chapterId] ELSE 0) + 1

\* const items = lesson.videoItems && lesson.videoItems.length > 0 ? ... : [{ index: 1, ... }]
ItemsOf(lesson) == IF Len(lesson.videoItems) > 0 THEN lesson.videoItems ELSE <<1>>

\* `${lessonPart}${partSuffix}.ts`                         (download.ts:251, 278-283)
MediaFileName(lesson, itemIndex) ==
  LET needsSuffix == Len(ItemsOf(lesson)) > 1
      partSuffix == IF needsSuffix THEN <<"_part-">> \o Digits(itemIndex) ELSE <<>>
  IN <<"lesson-">> \o Digits(lesson.lessonId) \o partSuffix \o <<".ts">>

\* path.join(outputDir, coursePart, chapterDirName, lessonDirName, file name)
OutFilePath(dirName, lessonIndex, lesson, itemIndex) ==
  << <<"course-">> \o Digits(structure.courseId),
     dirName,
     PadStart(Digits(lessonIndex), 2),
     MediaFileName(lesson, itemIndex) >>

\* one turn of for (const lesson of lessons), with its loop over the items
\*                                                          (download.ts:249-283)
LessonFiles ==
  /\ ppc = "loop"
  /\ lessonPos <= Len(runLessons)
  /\ LET lesson == runLessons[lessonPos]
         r == chapterDirNameForId(chapterIndexById, lesson.chapterId)
         lessonIndex == NextLessonIndex(chapterLessonIndex, lesson.chapterId)
         itemList == ItemsOf(lesson)
     IN /\ chapterIndexById' = r.map
        /\ chapterLessonIndex' = MapSet(chapterLessonIndex, lesson.chapterId, lessonIndex)
        /\ outFilePaths' = outFilePaths \o
             [k \in DOMAIN itemList |->
                [pos |-> lessonPos, lesson |-> lesson, itemIndex |-> itemList[k],
                 path |-> OutFilePath(r.name, lessonIndex, lesson, itemList[k])]]
  /\ lessonPos' = lessonPos + 1
  /\ UNCHANGED <<courseDetailsChapters, courseChapters, lessonChapters, lrun, lpc, dirNames,
                 structure, paramLessonIds, paramFirstLectureOnly, runLessons, ppc>>

\* the loop over the lessons is over
FinishPathsRun ==
  /\ ppc = "loop"
  /\ lessonPos > Len(runLessons)
  /\ ppc' = "done"
  /\ UNCHANGED <<layoutVars, structure, paramLessonIds, paramFirstLectureOnly, runLessons,
                 chapterLessonIndex, outFilePaths>>

IdlePaths ==
  /\ structure = <<>>
  /\ paramLessonIds = NoList
  /\ paramFirstLectureOnly = FALSE
  /\ runLessons = <<>>
  /\ chapterLessonIndex = EmptyMap
  /\ outFilePaths = <<>>
  /\ ppc = "idle"

----------------------------------------------------------------------------
\* Two runs of downloadCommand over the same course and output directory.  In
\* each run resolveCourseLessons returns the lessons of the course that resolve
\* in that run (nnnClient.ts:322-331), and the run has its own --lesson-ids.

\* the j-th smallest element of a set of positions
NthOf(positions, j) ==
  CHOOSE x \in positions : Cardinality({y \in positions : y < x}) = j - 1

\* the lessons at the given positions, in order
LessonsAt(list, positions) == [j \in 1..Cardinality(positions) |-> list[NthOf(positions, j)]]

\* structure.lessons of a run: the lessons of the course that did not fail;
\* with --first-lecture-only the queue holds the first lesson alone
\* (download.ts:154-156, nnnClient.ts:247-249)
IsResolvedStructure(s, all, firstOnly) ==
  \E positions \in SUBSET (IF firstOnly THEN {1} ELSE DOMAIN all) :
    s = [courseId |-> 77, lessons |-> LessonsAt(all, positions)]

\* --lesson-ids (a selection of lessons of the course, each named once) and
\* --first-lecture-only of a run
IsRunParams(ids, firstOnly, all) ==
  /\ \/ ids = NoList
     \/ \E n \in 1..MaxRequested : \E list \in [1..n -> {all[k].lessonId : k \in DOMAIN all}] :
          /\ \A a, b \in 1..n : a # b => list[a] # list[b]
          /\ ids = SomeList(list)
  /\ firstOnly \in BOOLEAN
  /\ firstOnly => ~ids.some

InitRuns ==
  /\ courseDetailsChapters = CourseOf(2)
  /\ \E n \in 1..MaxLessons :
       \E chapterOf \in [1..n -> {41, 42}] :
         /\ \A a, b \in 1..n : a < b => chapterOf[a] <= chapterOf[b]
         /\ courseLessons = [k \in 1..n |->
                               LessonOfStructure(StructureLessonId(k), chapterOf[k], <<>>)]
  /\ IsRunParams(paramLessonIds, paramFirstLectureOnly, courseLessons)
  /\ IsResolvedStructure(structure, courseLessons, paramFirstLectureOnly)
  /\ runNumber = 1
  /\ mediaFiles = {}
  /\ earlierFiles = <<>>
  /\ skippedFiles = {}
  /\ runLessons = <<>>
  /\ chapterLessonIndex = EmptyMap
  /\ outFilePaths = <<>>
  /\ ppc = "start"
  /\ courseChapters = <<>>
  /\ chapterIndexById = EmptyMap
  /\ lessonChapters = <<>>
  /\ lessonPos = 0
  /\ lrun = "A"
  /\ lpc = "paths"
  /\ dirNames = {}

\* const mediaExists = await fs.stat(outFilePath).then(...)   (download.ts:289-292)
MediaOnDisk(files, filePath) == filePath \in files

\* the items of one lesson: a media file that exists is skipped, any other is
\* downloaded                                              (download.ts:289-306)
DownloadOrSkip ==
  LET entries == SubSeq(outFilePaths', Len(outFilePaths) + 1, Len(outFilePaths'))
      paths == {entries[k].path : k \in DOMAIN entries}
  IN /\ skippedFiles' = skippedFiles \cup {p \in paths : MediaOnDisk(mediaFiles, p)}
     /\ mediaFiles' = mediaFiles \cup paths
     /\ UNCHANGED <<courseLessons, runNumber, earlierFiles>>

\* the command is run again, on the same course and output directory
SecondRun ==
  /\ ppc = "done"
  /\ runNumber = 1
  /\ runNumber' = 2
  /\ earlierFiles' = outFilePaths
  /\ outFilePaths' = <<>>
  /\ IsRunParams(paramLessonIds', paramFirstLectureOnly', courseLessons)
  /\ IsResolvedStructure(structure', courseLessons, paramFirstLectureOnly')
  /\ runLessons' = <<>>
  /\ chapterLessonIndex' = EmptyMap
  /\ courseChapters' = <<>>
  /\ chapterIndexById' = EmptyMap
  /\ lessonPos' = 0
  /\ ppc' = "start"
  /\ UNCHANGED <<courseDetailsChapters, lessonChapters, lrun, lpc, dirNames, courseLessons,
                 mediaFiles, skippedFiles>>

IdleRuns ==
  /\ courseLessons = <<>>
  /\ runNumber = 0
  /\ mediaFiles = {}
  /\ earlierFiles = <<>>
  /\ skippedFiles = {}

----------------------------------------------------------------------------
\* downloadCommand with --first-lecture-only (download.ts:154-158, 189-214, 249):
\* resolveCourseLessons builds its queue as above, under the limitLessons the
\* command passes, and resolves each item of the queue.

\* the lesson/movie sections of the selected chapters, in chapter-then-section order
RECURSIVE LectureKeysFrom(_, _)
LectureKeysFrom(chapters, n) ==
  IF n = 0 THEN <<>>
  ELSE LET lectureSections == LectureSections(chapters[n].sections)
       IN LectureKeysFrom(chapters, n - 1) \o
            [k \in DOMAIN lectureSections |-> <<chapters[n].id, lectureSections[k].id>>]
LectureKeys(chapters) == LectureKeysFrom(chapters, Len(chapters))
KeyOf(item) == <<item.chapter, item.lessonId>>

\* if (params.firstLectureOnly) resolveArgs.limitLessons = 1   (download.ts:154-156)
LimitLessonsArg(firstOnly) == IF firstOnly THEN Limit(2) ELSE NoLimit

InitFirst ==
  /\ \E n \in 1..MaxSelected : \E patterns \in [1..n -> SectionPatterns] :
       selectedChapters = [k \in 1..n |-> [id |-> 10 + k, sections |-> SectionsOf(patterns[k])]]
  /\ firstLectureOnly \in BOOLEAN
  /\ limitLessons = LimitLessonsArg(firstLectureOnly)
  /\ unresolvable \in SUBSET {LectureKeys(selectedChapters)[k] :
                                k \in DOMAIN LectureKeys(selectedChapters)}
  /\ chapterLessonIds = <<>>
  /\ workQueue = <<>>
  /\ qentry = 1
  /\ qlesson = 1
  /\ qpc = "sections"
  /\ requested = <<>>
  /\ resolvedStructure = <<>>
  /\ selectedLessons = <<>>
  /\ downloadedLessons = <<>>
  /\ flpc = "resolve"

\* step 3 is over: a resolved item is in lessons, a failed one in skippedLessons,
\* both in queue order                                   (nnnClient.ts:252-343)
ResolveReturns ==
  /\ flpc = "resolve"
  /\ qpc = "done"
  /\ resolvedStructure' =
       [lessons |-> SelectSeq(requested, LAMBDA item : KeyOf(item) \notin unresolvable),
        skippedLessons |-> SelectSeq(requested, LAMBDA item : KeyOf(item) \in unresolvable)]
  /\ flpc' = "resolved"
  /\ UNCHANGED <<queueVars, unresolvable, firstLectureOnly, selectedLessons, downloadedLessons>>

\* if (params.firstLectureOnly) return structure.lessons.slice(0, 1);
\* return structure.lessons                                (download.ts:210-211)
LessonsToDownload(firstOnly, lessonList) ==
  IF firstOnly THEN SubSeq(lessonList, 1, Min(1, Len(lessonList))) ELSE lessonList

\* const lessons = ...; if (lessons.length === 0) throw    (download.ts:189-214)
SelectLessons ==
  /\ flpc = "resolved"
  /\ selectedLessons' = LessonsToDownload(firstLectureOnly, resolvedStructure.lessons)
  /\ flpc' = IF selectedLessons' = <<>> THEN "failed" ELSE "selected"
  /\ UNCHANGED <<queueVars, unresolvable, firstLectureOnly, resolvedStructure, downloadedLessons>>

\* for (const lesson of lessons) { ... }                   (download.ts:249-283)
DownloadSelected ==
  /\ flpc = "selected"
  /\ downloadedLessons' = selectedLessons
  /\ flpc' = "done"
  /\ UNCHANGED <<queueVars, unresolvable, firstLectureOnly, resolvedStructure, selectedLessons>>

IdleFirst ==
  /\ unresolvable = {}
  /\ firstLectureOnly = FALSE
  /\ resolvedStructure = <<>>
  /\ selectedLessons = <<>>
  /\ downloadedLessons = <<>>
  /\ flpc = "idle"

----------------------------------------------------------------------------
\* NnnClient.resolveFirstLecture (nnnClient.ts:135-178).  Each of the client's
\* calls either returns the normalized payload or throws.

DetailCall(what, chapterId, contentId) ==
  [what |-> what, chapterId |-> chapterId, contentId |-> contentId]
NoChapter == Chapter(0, FALSE, 0)
NoSection == [id |-> 0, kind |-> "none", title |-> NoStr]
Threw(msg) == [threw |-> TRUE, chapterId |-> 0, lessonId |-> 0, message |-> msg]
ResolvedLecture(chapterId, lessonId) ==
  [threw |-> FALSE, chapterId |-> chapterId, lessonId |-> lessonId, message |-> ""]

InitPreview ==
  /\ \E n \in 0..MaxChapters :
       \E ids \in [1..n -> ChapterIds] :
         \E ord \in [1..n -> Orders] :
           /\ \A a, b \in 1..n : a # b => ids[a] # ids[b]
           /\ previewChapters = [k \in 1..n |-> Chapter(ids[k], ord[k].hasOrder, ord[k].order)]
  /\ previewSections = <<>>
  /\ firstChapter = NoChapter
  /\ firstSection = NoSection
  /\ detailCalls = <<>>
  /\ previewResult = <<>>
  /\ vpc = "course"

\* const firstChapter = sortedChapters[0]
FirstOf(sortedChapters, listed) == sortedChapters[1]

\* getCourseDetails, the sort and the choice of firstChapter   (nnnClient.ts:136-139)
PreviewCourse ==
  /\ vpc = "course"
  /\ detailCalls' = Append(detailCalls, DetailCall("course", 0, 0))
  /\ \E ok \in BOOLEAN :
       IF ~ok
       THEN /\ previewResult' = Threw("Course details request failed")
            /\ vpc' = "threw"
            /\ UNCHANGED firstChapter
       ELSE LET sortedChapters == SortByOrder(previewChapters)
            IN IF sortedChapters = <<>>
               THEN /\ previewResult' = Threw("No chapters found for course")
                    /\ vpc' = "threw"
                    /\ UNCHANGED firstChapter
               ELSE /\ firstChapter' = FirstOf(sortedChapters, previewChapters)
                    /\ vpc' = "chapter"
                    /\ UNCHANGED previewResult
  /\ UNCHANGED <<previewChapters, previewSections, firstSection>>

\* chapter.sections.find((s) => s.kind === 'lesson' || s.kind === 'movie')
FindLecture(sections) ==
  IF LectureSections(sections) = <<>> THEN NoSection ELSE LectureSections(sections)[1]

\* getChapterDetails and the choice of firstSection          (nnnClient.ts:141-146)
PreviewChapter ==
  /\ vpc = "chapter"
  /\ detailCalls' = Append(detailCalls, DetailCall("chapter", firstChapter.id, 0))
  /\ \E ok \in BOOLEAN, pattern \in SectionPatterns :
       IF ~ok
       THEN /\ previewResult' = Threw("Chapter details request failed")
            /\ vpc' = "threw"
            /\ UNCHANGED <<previewSections, firstSection>>
       ELSE /\ previewSections' = SectionsOf(pattern)
            /\ firstSection' = FindLecture(SectionsOf(pattern))
            /\ IF firstSection' = NoSection
               THEN /\ previewResult' = Threw("No lecture sections found in chapter")
                    /\ vpc' = "threw"
               ELSE /\ vpc' = "unit"
                    /\ UNCHANGED previewResult
  /\ UNCHANGED <<previewChapters, firstChapter>>

\* getMovieV2 or getLessonV1 for the section, and the return  (nnnClient.ts:155-177)
PreviewUnit ==
  /\ vpc = "unit"
  /\ detailCalls' =
       Append(detailCalls,
              DetailCall(IF firstSection.kind = "movie" THEN "movie" ELSE "lesson",
                         firstChapter.id, firstSection.id))
  /\ \E ok \in BOOLEAN :
       IF ok
       THEN /\ previewResult' = ResolvedLecture(firstChapter.id, firstSection.id)
            /\ vpc' = "returned"
       ELSE /\ previewResult' = Threw("request failed")
            /\ vpc' = "threw"
  /\ UNCHANGED <<previewChapters, previewSections, firstChapter, firstSection>>

IdlePreview ==
  /\ previewChapters = <<>>
  /\ previewSections = <<>>
  /\ firstChapter = NoChapter
  /\ firstSection = NoSection
  /\ detailCalls = <<>>
  /\ previewResult = <<>>
  /\ vpc = "idle"

----------------------------------------------------------------------------
\* Specifications: one per component, the other components idle

IdleResolve ==
  /\ queue = <<>>
  /\ maxConcurrencyParam = Num(1)
  /\ i = Num(0)
  /\ batch = <<>>
  /\ resolved = <<>>
  /\ lessons = <<>>
  /\ skippedLessons = <<>>
  /\ rpc = "idle"
  /\ rresult = NoResult
  /\ outcome = <<>>
  /\ settled = <<>>

IdleFetch ==
  /\ retries = 0
  /\ attempt = 0
  /\ lastError = NoError
  /\ fpc = "idle"
  /\ fresult = NoResult
  /\ waited = 0
  /\ requests = 0
  /\ delays = 0
  /\ responses = <<>>

IdleDownload ==
  /\ items = <<>>
  /\ fs = <<>>
  /\ run = 0
  /\ dpc = "idle"
  /\ idx = 0
  /\ downloaded = <<>>
  /\ skipped = {}
  /\ playlistRequests = 0
  /\ segmentRequests = 0
  /\ prevRunOk = FALSE
  /\ startFs = <<>>
  /\ IdleHls

IdleLayout ==
  /\ courseDetailsChapters = <<>>
  /\ courseChapters = <<>>
  /\ chapterIndexById = EmptyMap
  /\ lessonChapters = <<>>
  /\ lessonPos = 0
  /\ lrun = "A"
  /\ lpc = "idle"
  /\ dirNames = {}

IdleMigrate ==
  /\ disk = <<>>
  /\ disk0 = <<>>
  /\ readdirOrder = <<>>
  /\ migratedChapters = {}
  /\ mlesson = 0
  /\ mpc = "idle"
  /\ mlog = {}

IdleAll ==
  /\ courses = <<>>
  /\ onDemand = <<>>
  /\ apos = 0
  /\ failures = <<>>
  /\ apc = "idle"
  /\ aerror = <<>>
  /\ attempted = <<>>
  /\ courseOutcomes = <<>>

notResolve == <<fetchVars, downloadVars, hlsVars, layoutVars, migrateVars, allVars, normalizeVars, callbackVars, queueVars, cookieVars, pathVars, firstVars, previewVars, sendVars, fallbackVars, runsVars>>
notFetch == <<resolveVars, downloadVars, hlsVars, layoutVars, migrateVars, allVars, normalizeVars, callbackVars, queueVars, cookieVars, pathVars, firstVars, previewVars, sendVars, fallbackVars, runsVars>>
notDownload == <<resolveVars, fetchVars, layoutVars, migrateVars, allVars, normalizeVars, callbackVars, queueVars, cookieVars, pathVars, firstVars, previewVars, sendVars, fallbackVars, runsVars>>

ResolveInit == InitResolve /\ IdleFetch /\ IdleDownload /\ IdleLayout /\ IdleMigrate /\ IdleAll /\ IdleNormalize /\ IdleCallback /\ IdleQueue /\ IdleCookie /\ IdlePaths /\ IdleFirst /\ IdlePreview /\ IdleSend /\ IdleFallback /\ IdleRuns

NextResolve ==
  \/ StartBatch /\ UNCHANGED notResolve
  \/ (\E p \in DOMAIN resolved : ResolveOk(p)) /\ UNCHANGED notResolve
  \/ (\E p \in DOMAIN resolved : ResolveFail(p)) /\ UNCHANGED notResolve
  \/ JoinBatch /\ UNCHANGED notResolve
  \/ ReturnStructure /\ UNCHANGED notResolve

SpecResolve == ResolveInit /\ [][NextResolve]_vars

\* every request of a batch settles (fetchJsonWithRetry ends after at most
\* retries + 1 attempts) and the loop goes on when its await is over
SpecResolveLive == ResolveInit /\ [][NextResolve]_vars /\ WF_vars(NextResolve)

FetchInit == InitFetch /\ IdleResolve /\ IdleDownload /\ IdleLayout /\ IdleMigrate /\ IdleAll /\ IdleNormalize /\ IdleCallback /\ IdleQueue /\ IdleCookie /\ IdlePaths /\ IdleFirst /\ IdlePreview /\ IdleSend /\ IdleFallback /\ IdleRuns

NextFetch ==
  \/ (\E resp \in Responses : FetchAttempt(resp)) /\ UNCHANGED notFetch
  \/ Backoff /\ UNCHANGED notFetch

SpecFetch == FetchInit /\ [][NextFetch]_vars

DownloadInit == InitDownload /\ IdleResolve /\ IdleFetch /\ IdleLayout /\ IdleMigrate /\ IdleAll /\ IdleNormalize /\ IdleCallback /\ IdleQueue /\ IdleCookie /\ IdlePaths /\ IdleFirst /\ IdlePreview /\ IdleSend /\ IdleFallback /\ IdleRuns

NextDownload ==
  \/ SkipItem /\ UNCHANGED notDownload
  \/ CallHls /\ UNCHANGED notDownload
  \/ HlsFetchPlaylist /\ UNCHANGED notDownload
  \/ HlsFetchMedia /\ UNCHANGED notDownload
  \/ HlsRequestSegment /\ UNCHANGED notDownload
  \/ HlsSegmentResponse /\ UNCHANGED notDownload
  \/ HlsReadChunk /\ UNCHANGED notDownload
  \/ HlsBodyDone /\ UNCHANGED notDownload
  \/ HlsLoopExit /\ UNCHANGED notDownload
  \/ HlsFinally /\ UNCHANGED notDownload
  \/ HlsReturned /\ UNCHANGED notDownload
  \/ HlsThrew /\ UNCHANGED notDownload
  \/ FinishRun /\ UNCHANGED notDownload
  \/ RunAgain /\ UNCHANGED notDownload

SpecDownload == DownloadInit /\ [][NextDownload]_vars

notLayout == <<resolveVars, fetchVars, downloadVars, hlsVars, migrateVars, allVars, normalizeVars, callbackVars, queueVars, cookieVars, pathVars, firstVars, previewVars, sendVars, fallbackVars, runsVars>>

LayoutInit == InitLayout /\ IdleResolve /\ IdleFetch /\ IdleDownload /\ IdleMigrate /\ IdleAll /\ IdleNormalize /\ IdleCallback /\ IdleQueue /\ IdleCookie /\ IdlePaths /\ IdleFirst /\ IdlePreview /\ IdleSend /\ IdleFallback /\ IdleRuns

NextLayout ==
  \/ StartLayoutRun /\ UNCHANGED notLayout
  \/ LessonChapterDir /\ UNCHANGED notLayout
  \/ FinishLayoutRun /\ UNCHANGED notLayout
  \/ SecondLayoutRun /\ UNCHANGED notLayout

SpecLayout == LayoutInit /\ [][NextLayout]_vars

notMigrate == <<resolveVars, fetchVars, downloadVars, hlsVars, layoutVars, allVars, normalizeVars, callbackVars, queueVars, cookieVars, pathVars, firstVars, previewVars, sendVars, fallbackVars, runsVars>>

MigrateInit == InitMigrate /\ IdleResolve /\ IdleFetch /\ IdleDownload /\ IdleLayout /\ IdleAll /\ IdleNormalize /\ IdleCallback /\ IdleQueue /\ IdleCookie /\ IdlePaths /\ IdleFirst /\ IdlePreview /\ IdleSend /\ IdleFallback /\ IdleRuns

NextMigrate ==
  \/ MigrateOnFirstLesson /\ UNCHANGED notMigrate
  \/ NoSecondMigration /\ UNCHANGED notMigrate
  \/ MkdirLessonDir /\ UNCHANGED notMigrate

SpecMigrate == MigrateInit /\ [][NextMigrate]_vars

notAll == <<resolveVars, fetchVars, downloadVars, hlsVars, layoutVars, migrateVars, normalizeVars, callbackVars, queueVars, cookieVars, pathVars, firstVars, previewVars, sendVars, fallbackVars, runsVars>>

AllInit ==
  InitAll /\ IdleResolve /\ IdleFetch /\ IdleDownload /\ IdleLayout /\ IdleMigrate /\ IdleNormalize /\ IdleCallback /\ IdleQueue /\ IdleCookie /\ IdlePaths /\ IdleFirst /\ IdlePreview /\ IdleSend /\ IdleFallback /\ IdleRuns

NextAll ==
  \/ ListCourses /\ UNCHANGED notAll
  \/ CallDownloadCommand /\ UNCHANGED notAll
  \/ CourseFinished /\ UNCHANGED notAll
  \/ (\E msg \in CourseErrors : CourseFailed(msg)) /\ UNCHANGED notAll
  \/ EndOfCourses /\ UNCHANGED notAll

SpecAll == AllInit /\ [][NextAll]_vars

notNormalize == <<resolveVars, fetchVars, downloadVars, hlsVars, layoutVars, migrateVars, allVars, callbackVars, queueVars, cookieVars, pathVars, firstVars, previewVars, sendVars, fallbackVars, runsVars>>

NormalizeInit ==
  InitNormalize /\ IdleResolve /\ IdleFetch /\ IdleDownload /\ IdleLayout /\ IdleMigrate /\ IdleAll /\ IdleCallback /\ IdleQueue /\ IdleCookie /\ IdlePaths /\ IdleFirst /\ IdlePreview /\ IdleSend /\ IdleFallback /\ IdleRuns

NextNormalize ==
  \/ (\E input \in PayloadsFor("course") : CallParseCourseDetails(input)) /\ UNCHANGED notNormalize
  \/ (\E input \in PayloadsFor("chapter") : CallParseChapterDetails(input)) /\ UNCHANGED notNormalize
  \/ (\E input \in PayloadsFor("lesson") : CallParseLessonV1(input)) /\ UNCHANGED notNormalize

SpecNormalize == NormalizeInit /\ [][NextNormalize]_vars

notCallback == <<resolveVars, fetchVars, downloadVars, hlsVars, layoutVars, migrateVars, allVars,
                 normalizeVars, queueVars, cookieVars, pathVars, firstVars, previewVars, sendVars, fallbackVars, runsVars>>

CallbackInit ==
  InitCallback /\ IdleResolve /\ IdleFetch /\ IdleDownload /\ IdleLayout /\ IdleMigrate /\ IdleAll
  /\ IdleNormalize /\ IdleQueue /\ IdleCookie /\ IdlePaths /\ IdleFirst /\ IdlePreview /\ IdleSend /\ IdleFallback /\ IdleRuns

NextCallback ==
  \/ GetMovieV2 /\ UNCHANGED notCallback
  \/ GetLessonV1 /\ UNCHANGED notCallback
  \/ CallbackReturns /\ UNCHANGED notCallback
  \/ CallbackCatches /\ UNCHANGED notCallback

SpecCallback == CallbackInit /\ [][NextCallback]_vars

notQueue == <<resolveVars, fetchVars, downloadVars, hlsVars, layoutVars, migrateVars, allVars,
              normalizeVars, callbackVars, cookieVars, pathVars, firstVars, previewVars, sendVars, fallbackVars, runsVars>>

QueueInit ==
  InitQueue /\ IdleResolve /\ IdleFetch /\ IdleDownload /\ IdleLayout /\ IdleMigrate /\ IdleAll
  /\ IdleNormalize /\ IdleCallback /\ IdleCookie /\ IdlePaths /\ IdleFirst /\ IdlePreview /\ IdleSend /\ IdleFallback /\ IdleRuns

NextQueue ==
  \/ FetchChapterSections /\ UNCHANGED notQueue
  \/ SectionsFetched /\ UNCHANGED notQueue
  \/ EnqueueLesson /\ UNCHANGED notQueue
  \/ InnerLoopEnds /\ UNCHANGED notQueue
  \/ AfterEntry /\ UNCHANGED notQueue
  \/ QueueBuilt /\ UNCHANGED notQueue
  \/ RequestQueued /\ UNCHANGED notQueue
  \/ AllRequested /\ UNCHANGED notQueue

SpecQueue == QueueInit /\ [][NextQueue]_vars

notCookie == <<resolveVars, fetchVars, downloadVars, hlsVars, layoutVars, migrateVars, allVars,
               normalizeVars, callbackVars, queueVars, pathVars, firstVars, previewVars, sendVars, fallbackVars, runsVars>>

CookieInit ==
  InitCookie /\ IdleResolve /\ IdleFetch /\ IdleDownload /\ IdleLayout /\ IdleMigrate /\ IdleAll
  /\ IdleNormalize /\ IdleCallback /\ IdleQueue /\ IdlePaths /\ IdleFirst /\ IdlePreview /\ IdleSend /\ IdleFallback /\ IdleRuns

NextCookie ==
  \/ LoadSession /\ UNCHANGED notCookie
  \/ (\E url \in TargetUrls : BuildCookieHeader(url)) /\ UNCHANGED notCookie

SpecCookie == CookieInit /\ [][NextCookie]_vars

\* the run of the media file paths has the variables of the folder names too
notPaths == <<resolveVars, fetchVars, downloadVars, hlsVars, migrateVars, allVars,
              normalizeVars, callbackVars, queueVars, cookieVars, firstVars, previewVars, sendVars, fallbackVars, runsVars>>

PathsInit ==
  InitPaths /\ IdleResolve /\ IdleFetch /\ IdleDownload /\ IdleMigrate /\ IdleAll
  /\ IdleNormalize /\ IdleCallback /\ IdleQueue /\ IdleCookie /\ IdleFirst /\ IdlePreview /\ IdleSend /\ IdleFallback /\ IdleRuns

NextPaths ==
  \/ StartPathsRun /\ UNCHANGED notPaths
  \/ PathsRunFails /\ UNCHANGED notPaths
  \/ LessonFiles /\ UNCHANGED notPaths
  \/ FinishPathsRun /\ UNCHANGED notPaths

SpecPaths == PathsInit /\ [][NextPaths]_vars

\* the run with --first-lecture-only has the variables of the work queue too
notFirst == <<resolveVars, fetchVars, downloadVars, hlsVars, layoutVars, migrateVars, allVars,
              normalizeVars, callbackVars, cookieVars, pathVars, previewVars, sendVars, fallbackVars, runsVars>>

FirstInit ==
  InitFirst /\ IdleResolve /\ IdleFetch /\ IdleDownload /\ IdleLayout /\ IdleMigrate /\ IdleAll
  /\ IdleNormalize /\ IdleCallback /\ IdleCookie /\ IdlePaths /\ IdlePreview /\ IdleSend /\ IdleFallback /\ IdleRuns

NextFirst ==
  \/ FetchChapterSections /\ UNCHANGED <<notFirst, firstVars>>
  \/ SectionsFetched /\ UNCHANGED <<notFirst, firstVars>>
  \/ EnqueueLesson /\ UNCHANGED <<notFirst, firstVars>>
  \/ InnerLoopEnds /\ UNCHANGED <<notFirst, firstVars>>
  \/ AfterEntry /\ UNCHANGED <<notFirst, firstVars>>
  \/ QueueBuilt /\ UNCHANGED <<notFirst, firstVars>>
  \/ RequestQueued /\ UNCHANGED <<notFirst, firstVars>>
  \/ AllRequested /\ UNCHANGED <<notFirst, firstVars>>
  \/ ResolveReturns /\ UNCHANGED notFirst
  \/ SelectLessons /\ UNCHANGED notFirst
  \/ DownloadSelected /\ UNCHANGED notFirst

SpecFirst == FirstInit /\ [][NextFirst]_vars

notPreview == <<resolveVars, fetchVars, downloadVars, hlsVars, layoutVars, migrateVars, allVars,
                normalizeVars, callbackVars, queueVars, cookieVars, pathVars, firstVars, sendVars, fallbackVars, runsVars>>

PreviewInit ==
  InitPreview /\ IdleResolve /\ IdleFetch /\ IdleDownload /\ IdleLayout /\ IdleMigrate /\ IdleAll
  /\ IdleNormalize /\ IdleCallback /\ IdleQueue /\ IdleCookie /\ IdlePaths /\ IdleFirst /\ IdleSend /\ IdleFallback /\ IdleRuns

NextPreview ==
  \/ PreviewCourse /\ UNCHANGED notPreview
  \/ PreviewChapter /\ UNCHANGED notPreview
  \/ PreviewUnit /\ UNCHANGED notPreview

SpecPreview == PreviewInit /\ [][NextPreview]_vars

notSend == <<resolveVars, fetchVars, downloadVars, hlsVars, layoutVars, migrateVars, allVars,
             normalizeVars, callbackVars, queueVars, cookieVars, pathVars, firstVars, previewVars, fallbackVars, runsVars>>

SendInit ==
  InitSend /\ IdleResolve /\ IdleFetch /\ IdleDownload /\ IdleLayout /\ IdleMigrate /\ IdleAll
  /\ IdleNormalize /\ IdleCallback /\ IdleQueue /\ IdleCookie /\ IdlePaths /\ IdleFirst /\ IdlePreview /\ IdleFallback /\ IdleRuns

NextSend ==
  \/ BuildHeaders /\ UNCHANGED notSend
  \/ (\E url \in MediaUrls : RequestPlaylist(url)) /\ UNCHANGED notSend
  \/ (\E url \in MediaUrls : RequestSegment(url)) /\ UNCHANGED notSend

SpecSend == SendInit /\ [][NextSend]_vars

\* the run with an incomplete chapter list has the variables of the folder names too
notFallback == <<resolveVars, fetchVars, downloadVars, hlsVars, migrateVars, allVars,
                 normalizeVars, callbackVars, queueVars, cookieVars, pathVars, firstVars,
                 previewVars, sendVars, runsVars>>

FallbackInit ==
  InitFallback /\ IdleResolve /\ IdleFetch /\ IdleDownload /\ IdleMigrate /\ IdleAll
  /\ IdleNormalize /\ IdleCallback /\ IdleQueue /\ IdleCookie /\ IdlePaths /\ IdleFirst
  /\ IdlePreview /\ IdleSend /\ IdleRuns

NextFallback ==
  \/ StartFallbackRun /\ UNCHANGED notFallback
  \/ LookupChapterDir /\ UNCHANGED notFallback
  \/ FinishFallbackRun /\ UNCHANGED notFallback

SpecFallback == FallbackInit /\ [][NextFallback]_vars

\* the two runs have the variables of the media file paths and of the folder names
notRuns == <<resolveVars, fetchVars, downloadVars, hlsVars, migrateVars, allVars,
             normalizeVars, callbackVars, queueVars, cookieVars, firstVars, previewVars,
             sendVars, fallbackVars>>

RunsInit ==
  InitRuns /\ IdleResolve /\ IdleFetch /\ IdleDownload /\ IdleMigrate /\ IdleAll
  /\ IdleNormalize /\ IdleCallback /\ IdleQueue /\ IdleCookie /\ IdleFirst /\ IdlePreview
  /\ IdleSend /\ IdleFallback

NextRuns ==
  \/ StartPathsRun /\ UNCHANGED <<notRuns, runsVars>>
  \/ PathsRunFails /\ UNCHANGED <<notRuns, runsVars>>
  \/ LessonFiles /\ DownloadOrSkip /\ UNCHANGED notRuns
  \/ FinishPathsRun /\ UNCHANGED <<notRuns, runsVars>>
  \/ SecondRun /\ UNCHANGED notRuns

SpecRuns == RunsInit /\ [][NextRuns]_vars

----------------------------------------------------------------------------
\* Claims about resolveCourseLessons (checked under SpecResolve)

Failed(p) == outcome[p] \notin {"none", "ok"}

\* the indexes of the entries of sk that name the given queue item
EntriesFor(sk, item) ==
  {j \in 1..Len(sk) : sk[j].chapterId = item.chapterId /\ sk[j].lessonId = item.lessonId}

\* the CourseLessons of the items among the first k that resolved, in queue order
RECURSIVE OkLessons(_)
OkLessons(k) ==
  IF k = 0 THEN <<>>
  ELSE OkLessons(k - 1) \o (IF outcome[k] = "ok" THEN <<CourseLesson(queue[k])>> ELSE <<>>)

SeqRange(sq) == {sq[j] : j \in 1..Len(sq)}

\* C1: a failed item never aborts the call: the call does not reject, and when it
\* has returned with some item p failed, every other queue item was resolved too
\* (it settled, and when it succeeded its lesson is in the result), and
\* skippedLessons holds exactly one entry for p, with p's chapterId and lessonId
\* and the error message as reason.
C1_FailureIsolated ==
  /\ rpc # "threw"
  /\ rpc = "done" =>
       \A p \in 1..Len(queue) : Failed(p) =>
         /\ rresult # NoResult
         /\ \A q \in 1..Len(queue) :
              /\ outcome[q] # "none"
              /\ outcome[q] = "ok" => CourseLesson(queue[q]) \in SeqRange(rresult.lessons)
         /\ Cardinality(EntriesFor(rresult.skippedLessons, queue[p])) = 1
         /\ \A j \in EntriesFor(rresult.skippedLessons, queue[p]) :
              rresult.skippedLessons[j] = SkippedEntry(queue[p], outcome[p])

\* the spec's case: 5 lessons, maxConcurrency 2, lesson #3 fails, the others resolve
C1_Witness ==
  /\ rpc = "done"
  /\ Len(queue) = 5
  /\ maxConcurrency = Num(2)
  /\ Failed(3)
  /\ \A q \in {1, 2, 4, 5} : outcome[q] = "ok"
  /\ Len(rresult.lessons) = 4
  /\ Len(rresult.skippedLessons) = 1

\* C2: whatever the order in which the resolutions of a batch complete, the
\* returned lessons are the successfully resolved queue items in enqueue order.
C2_EnqueueOrder ==
  rpc = "done" => rresult.lessons = OkLessons(Len(queue))

\* two items of one batch resolve in the reverse of their queue order
C2_Witness ==
  /\ rpc = "done"
  /\ \E a, b \in 1..Len(settled) :
       /\ a < b
       /\ settled[a] > settled[b]
       /\ outcome[settled[a]] = "ok"
       /\ outcome[settled[b]] = "ok"
  /\ Len(rresult.lessons) >= 2

\* C3: when the call returns, every queue item is in the result exactly once,
\* in lessons or in skippedLessons and not in both, so the two sizes add up to
\* the queue length.
C3_NothingDropped ==
  rpc = "done" =>
    /\ Len(rresult.lessons) + Len(rresult.skippedLessons) = Len(queue)
    /\ \A p \in 1..Len(queue) :
         Cardinality({j \in 1..Len(rresult.lessons) :
                        rresult.lessons[j].chapterId = queue[p].chapterId
                        /\ rresult.lessons[j].lessonId = queue[p].lessonId})
         + Cardinality(EntriesFor(rresult.skippedLessons, queue[p])) = 1

----------------------------------------------------------------------------
\* Claims about fetchJsonWithRetry (checked under SpecFetch)

LastResponse == responses[Len(responses)]

TransportError(r) == r.kind = "reject"
SuccessStatus(r) == r.kind = "response" /\ RespOk(r.status)
Decoded(r) == SuccessStatus(r) /\ r.jsonOk
UndecodableBody(r) == SuccessStatus(r) /\ ~r.jsonOk
RetryableStatus(r) == r.kind = "response" /\ ~RespOk(r.status) /\ RetryOnStatus(r.status)
FinalStatus(r) == r.kind = "response" /\ ~RespOk(r.status) /\ ~RetryOnStatus(r.status)

\* the request and delay budget, and the loop never runs dry: at the loop head
\* another request is due, at the backoff another iteration is
RetryBudget ==
  /\ requests <= retries + 1
  /\ delays <= retries
  /\ fpc = "fetch" => attempt <= retries /\ delays = requests
  /\ fpc = "backoff" => attempt < retries /\ delays = requests - 1
  /\ fpc = "returned" => delays = requests - 1

\* C7 as stated: after a failed attempt a further request is issued if and only if
\* fewer than `retries` retries were made and the failure was a transport error or
\* a status for which retryOnStatus is true; a status for which it is false
\* returns the failure at once; at most retries+1 requests and `retries` delays.
C7_RetryIffAsStated ==
  /\ RetryBudget
  /\ (requests >= 1 /\ ~Decoded(LastResponse)) =>
       /\ (fpc # "returned") <=>
            (requests - 1 < retries
             /\ (TransportError(LastResponse) \/ RetryableStatus(LastResponse)))
       /\ FinalStatus(LastResponse) =>
            /\ fpc = "returned"
            /\ fresult = [ok |-> FALSE, error |-> HttpError(LastResponse.status)]

\* C7 (amended): as C7, where the failures that are retried are a transport error,
\* a success response whose body resp.json() cannot decode (the catch block
\* reports it as a network_error too), or a status for which retryOnStatus is true.
C7_RetryIff ==
  /\ RetryBudget
  /\ (requests >= 1 /\ ~Decoded(LastResponse)) =>
       /\ (fpc # "returned") <=>
            (requests - 1 < retries
             /\ (TransportError(LastResponse) \/ UndecodableBody(LastResponse)
                 \/ RetryableStatus(LastResponse)))
       /\ FinalStatus(LastResponse) =>
            /\ fpc = "returned"
            /\ fresult = [ok |-> FALSE, error |-> HttpError(LastResponse.status)]

\* a 503 is retried after one delay, the 404 that follows is returned at once
C7_Witness ==
  /\ retries = 3
  /\ Len(responses) = 2
  /\ RetryableStatus(responses[1])
  /\ FinalStatus(responses[2])
  /\ fpc = "returned"
  /\ requests = 2
  /\ delays = 1

\* C8 as stated: once an attempt returns a success status (the attempts before it
\* having failed and been retried), the result is {ok: true} with the decoded
\* value, after exactly one delay per failed attempt, and no request follows.
C8_SuccessStatusAsStated ==
  (requests >= 1 /\ SuccessStatus(LastResponse)) =>
    /\ fpc = "returned"
    /\ fresult = [ok |-> TRUE, value |-> DecodedValue]
    /\ delays = requests - 1
    /\ requests <= retries + 1

\* C8 (amended): once an attempt returns a success status with a body that
\* resp.json() decodes, the result is {ok: true} with the decoded value, exactly
\* k delays were waited for the k failed attempts before it, exactly k+1 requests
\* were made, and no request follows.
C8_SuccessEndsCall ==
  (requests >= 1 /\ Decoded(LastResponse)) =>
    /\ fpc = "returned"
    /\ fresult = [ok |-> TRUE, value |-> DecodedValue]
    /\ delays = requests - 1
    /\ requests <= retries + 1
    /\ \A k \in 1..(requests - 1) : ~Decoded(responses[k])

\* the spec's case: retries = 3 and 503, 503, 200
C8_Witness ==
  /\ retries = 3
  /\ Len(responses) = 3
  /\ responses[1] = [kind |-> "response", status |-> 503]
  /\ responses[2] = [kind |-> "response", status |-> 503]
  /\ Decoded(responses[3])
  /\ fpc = "returned"
  /\ fresult.ok
  /\ delays = 2
  /\ requests = 3

\* C9: the call never rejects for a transport failure or a non-success status;
\* when it has returned there is a result value, and a failure result carries the
\* error of the last attempt made: http_error with that attempt's status, or
\* network_error with that attempt's message.
C9_NeverThrows ==
  /\ fpc # "threw"
  /\ fpc = "returned" =>
       /\ fresult # NoResult
       /\ requests >= 1
       /\ ~fresult.ok =>
            /\ TransportError(LastResponse) =>
                 fresult.error = [kind |-> "network_error", message |-> LastResponse.message]
            /\ (LastResponse.kind = "response" /\ ~RespOk(LastResponse.status)) =>
                 fresult.error = [kind |-> "http_error", status |-> LastResponse.status]
            /\ ~Decoded(LastResponse)

\* three failed attempts with three different errors: the last one is returned
C9_Witness ==
  /\ retries = 2
  /\ Len(responses) = 3
  /\ responses[1] = [kind |-> "reject", message |-> "ECONNRESET"]
  /\ responses[2] = [kind |-> "response", status |-> 503]
  /\ responses[3] = [kind |-> "reject", message |-> "ETIMEDOUT"]
  /\ fpc = "returned"
  /\ ~fresult.ok

----------------------------------------------------------------------------
\* Claims about downloadCommand and downloadHlsToFile (checked under SpecDownload)

\* the media playlist downloadHlsToFile ends up reading for a playlist URL
MediaUrlOf(url) ==
  LET parsed == parseM3u8(ServerText(url), url)
  IN IF Len(parsed.variantUrls) > 0
     THEN parsed.variantUrls[Len(parsed.variantUrls)]
     ELSE url

MediaSegmentsOf(url) ==
  IF ServerText(MediaUrlOf(url)) = NotFound THEN <<>>
  ELSE parseM3u8(ServerText(MediaUrlOf(url)), MediaUrlOf(url)).segmentUrls

\* the first n chunks of a segment's body
BodyPrefix(url, n) == [k \in 1..n |-> Chunk(url, k)]

\* the bodies of the first n segments, one behind the other
RECURSIVE ConcatBodies(_, _)
ConcatBodies(urls, n) ==
  IF n = 0 THEN <<>>
  ELSE ConcatBodies(urls, n - 1) \o BodyPrefix(urls[n], BodyChunks(urls[n]))

\* what a complete download of the item leaves in its file
FullContent(url) == ConcatBodies(MediaSegmentsOf(url), Len(MediaSegmentsOf(url)))

AllSkippedNoRequests ==
  /\ dpc \in {"item", "finished"}
  /\ playlistRequests = 0
  /\ segmentRequests = 0
  /\ \A k \in 1..Len(items) : MediaExists(fs[k])
  /\ skipped = 1..(idx - 1)
  /\ dpc = "finished" => skipped = 1..Len(items)

\* C4 as stated: after a run that finished successfully, a second run over the
\* same items and the files that run left skips every video item (each file
\* exists with non-zero size) and issues no playlist and no segment request.
C4_IdempotentAsStated ==
  (run >= 2 /\ prevRunOk) => AllSkippedNoRequests

\* C4 (amended): after a run that finished successfully, when the media of every
\* item has at least one segment with a non-empty body, a second run over the
\* same items and the files that run left skips every video item (each file
\* exists with non-zero size) and issues no playlist and no segment request.
C4_Idempotent ==
  (run >= 2 /\ prevRunOk /\ \A k \in 1..Len(items) : FullContent(items[k]) # <<>>)
    => AllSkippedNoRequests

\* the second run over two downloaded items has finished, both skipped
C4_Witness ==
  /\ run = 2
  /\ prevRunOk
  /\ Len(items) = 2
  /\ items[1] # items[2]
  /\ dpc = "finished"
  /\ skipped = {1, 2}
  /\ downloaded = <<1, 2>>
  /\ playlistRequests = 0
  /\ segmentRequests = 0

\* C5: when a playlist the call fetched has a key line (the playlist at the given
\* URL or the media playlist chosen from a master playlist), the call fails with
\* the unsupported-content error, no segment is requested and the output file is
\* not created.
C5_EncryptedRejected ==
  (dpc = "hls" /\ keySeen) =>
    /\ hpc = "threw"
    /\ herror = [message |-> EncryptedError]
    /\ callSegmentRequests = 0
    /\ ~created

\* C6: whenever an item is skipped because its file exists with non-zero size,
\* the file holds all segments of the item's media playlist; a call that failed
\* after writing a segment leaves no file that a later run skips.
C6_NoTruncatedSkip ==
  \A k \in skipped : fs[k].content = FullContent(items[k])

\* the file holds the complete bodies of the segments before the current one and
\* the chunks read so far of the current one, in playlist order
WrittenInOrder ==
  fs[idx].content =
    ConcatBodies(segmentUrls, segIndex)
      \o (IF segIndex < Len(segmentUrls)
          THEN BodyPrefix(segmentUrls[segIndex + 1], chunksRead)
          ELSE <<>>)

\* C10: at most one segment request is in flight at any time; segment i+1 is
\* requested only when the whole bodies of segments 1..i are in the output
\* stream; the bytes written are the segment bodies concatenated in playlist
\* order, all of them when the call returns.
C10_Sequential ==
  (dpc = "hls" /\ created) =>
    /\ Cardinality(inflight) <= 1
    /\ inflight \subseteq {segIndex + 1}
    /\ callSegmentRequests \in {segIndex, segIndex + 1}
    /\ inflight # {} => callSegmentRequests = segIndex + 1
    /\ WrittenInOrder
    /\ hpc = "awaitResponse" =>
         /\ inflight = {segIndex + 1}
         /\ fs[idx].content = ConcatBodies(segmentUrls, segIndex)
    /\ hpc = "returned" =>
         /\ inflight = {}
         /\ callSegmentRequests = Len(segmentUrls)
         /\ fs[idx].content = FullContent(items[idx])

\* a call on a playlist of two segments, three chunks in all, has returned
C10_Witness ==
  /\ dpc = "hls"
  /\ hpc = "returned"
  /\ Len(segmentUrls) = 2
  /\ callSegmentRequests = 2
  /\ Len(fs[idx].content) = 3
  /\ fs[idx].content = FullContent(items[idx])

\* the references a playlist text declares as variant streams, in file order:
\* the URI line that follows each stream-information line
RECURSIVE DeclaredFrom(_, _)
DeclaredFrom(ls, j) ==
  IF j >= Len(ls) THEN <<>>
  ELSE IF ls[j].tag = "inf" /\ ls[j + 1].tag = "uri"
       THEN <<ls[j + 1].ref>> \o DeclaredFrom(ls, j + 1)
       ELSE DeclaredFrom(ls, j + 1)

DeclaredVariants(url) == DeclaredFrom(Lines(ServerText(url)), 1)

\* the URI lines of the playlist at url, in file order, resolved against url
RECURSIVE UriLinesFrom(_, _, _)
UriLinesFrom(ls, j, url) ==
  IF j > Len(ls) THEN <<>>
  ELSE IF ls[j].tag = "uri"
       THEN <<ResolveUrl(ls[j].ref, url)>> \o UriLinesFrom(ls, j + 1, url)
       ELSE UriLinesFrom(ls, j + 1, url)

SegmentsListedAt(url) == UriLinesFrom(Lines(ServerText(url)), 1, url)

\* the playlist requests a call on url has to make, in order
PlaylistsToFetch(url) ==
  LET decl == DeclaredVariants(url)
  IN IF Len(decl) >= 1
     THEN <<url, ResolveUrl(decl[Len(decl)], url)>>
     ELSE <<url>>

IsPrefix(a, b) == Len(a) <= Len(b) /\ \A k \in 1..Len(a) : a[k] = b[k]

\* C11: for a playlist that declares n >= 1 variants the call requests exactly
\* one further playlist, the last declared variant resolved against the
\* playlist's URL, and its segments are the ones that playlist lists; for a
\* playlist that declares none, no second playlist is requested and the
\* segments are the ones the playlist itself lists.
C11_LastVariantOnly ==
  dpc = "hls" =>
    LET want == PlaylistsToFetch(items[idx])
    IN /\ IsPrefix(callPlaylists, want)
       /\ created =>
            /\ callPlaylists = want
            /\ segmentUrls = SegmentsListedAt(want[Len(want)])

\* a call on the master playlist with three variants has returned
C11_Witness ==
  /\ dpc = "hls"
  /\ hpc = "returned"
  /\ Len(DeclaredVariants(items[idx])) = 3
  /\ callPlaylists = <<Url("m", "master.m3u8"), Url("m", "top.m3u8")>>
  /\ segmentUrls = <<Url("m", "s1.ts"), Url("m", "s2.ts")>>
  /\ callSegmentRequests = 2

\* the media playlist a call on url reads, and whether it lists no segment
MediaPlaylistAt(url) == PlaylistsToFetch(url)[Len(PlaylistsToFetch(url))]
NoSegmentListed(url) ==
  /\ ServerText(MediaPlaylistAt(url)) # NotFound
  /\ SegmentsListedAt(MediaPlaylistAt(url)) = <<>>

\* C12: when the media playlist yields no segment URL the call fails with an
\* error; no segment is requested and the output file is neither created nor
\* truncated.
C12_NoSegmentsFails ==
  (dpc = "hls" /\ NoSegmentListed(items[idx])) =>
    /\ callSegmentRequests = 0
    /\ ~created
    /\ fs[idx] = startFs[idx]
    /\ hpc \in {"fetchPlaylist", "fetchMedia", "threw"}
    /\ (hpc = "threw" /\ herror # [message |-> FetchTextError]) =>
         herror = [message |-> NoSegmentsError]

\* the media playlist chosen from a master playlist lists no segment: the call
\* has thrown after two playlist requests
C12_Witness ==
  /\ dpc = "hls"
  /\ hpc = "threw"
  /\ herror = [message |-> NoSegmentsError]
  /\ Len(callPlaylists) = 2
  /\ NoSegmentListed(items[idx])
  /\ fs[idx] = NoFile

\* C13: once the call has opened the output stream, the stream is ended on every
\* path out of the call; the call returns exactly when every segment was read
\* and otherwise throws the error of the failed segment, whether the chmod
\* failed or not.
C13_StreamAlwaysEnded ==
  (dpc = "hls" /\ created /\ hpc \in {"returned", "threw"}) =>
    /\ streamEnded
    /\ hpc = "returned" <=> segIndex = Len(segmentUrls)
    /\ hpc = "returned" => herror = NoError
    /\ hpc = "threw" =>
         herror \in {[message |-> SegmentError], [message |-> ReadError]}

\* the second segment failed after the first was written, the chmod failed too:
\* the call has thrown the segment's error
C13_Witness ==
  /\ dpc = "hls"
  /\ hpc = "threw"
  /\ created
  /\ streamEnded
  /\ chmodFailed
  /\ segIndex = 1
  /\ Len(fs[idx].content) >= 1
  /\ herror = [message |-> SegmentError]

\* the call returned although the chmod failed
C13_WitnessSuccess ==
  /\ dpc = "hls"
  /\ hpc = "returned"
  /\ chmodFailed
  /\ streamEnded

----------------------------------------------------------------------------
\* Claims about the chapter folder names (checked under SpecLayout)

\* the 1-based position of chapter k of course.chapters in the list sorted by
\* order (absent order counting as 0), equal orders staying in their order
SortedPosition(k) ==
  1 + Cardinality({j \in DOMAIN courseDetailsChapters :
                     \/ OrderKey(courseDetailsChapters[j]) < OrderKey(courseDetailsChapters[k])
                     \/ /\ OrderKey(courseDetailsChapters[j]) = OrderKey(courseDetailsChapters[k])
                        /\ j < k})

PositionOfChapter(id) ==
  SortedPosition(CHOOSE k \in DOMAIN courseDetailsChapters : courseDetailsChapters[k].id = id)

\* the number a sequence of decimal digits writes
RECURSIVE DigitsValue(_)
DigitsValue(s) ==
  IF s = <<>> THEN 0 ELSE 10 * DigitsValue(SubSeq(s, 1, Len(s) - 1)) + s[Len(s)]

\* C14: the folder name a run uses for a chapter of the list is the zero-padded
\* 1-based position of the chapter in the full sorted list, whatever chapters
\* the run selected: the same chapter has the same folder in both runs, and two
\* different chapters never have the same folder.
C14_StableChapterFolder ==
  /\ \A e \in dirNames :
       /\ DigitsValue(e.name) = PositionOfChapter(e.id)
       /\ Len(e.name) = 2
  /\ \A e1, e2 \in dirNames : (e1.id = e2.id) <=> (e1.name = e2.name)

\* the chapter in third place of the sorted list is the only chapter of run A and
\* one of several of run B, the list arrived unsorted, and both runs used 03
C14_Witness ==
  /\ lrun = "B"
  /\ lpc = "done"
  /\ \E e1, e2 \in dirNames :
       /\ e1.run = "A" /\ e2.run = "B"
       /\ e1.id = e2.id
       /\ Len(e1.ofRun) = 1
       /\ Len(e2.ofRun) >= 2
       /\ e1.name = <<0, 3>>
       /\ e2.name = <<0, 3>>
       /\ courseDetailsChapters[1].id = e1.id

----------------------------------------------------------------------------
\* Claims about the legacy chapter folder migration (checked under SpecMigrate)

\* the migration of the chapter has been made in this run
Migrated == MigratedChapterId \in migratedChapters

\* the regular files the legacy folder held before the run
LegacyFiles0 == {p \in DOMAIN disk0 : Under(p, legacyPath) /\ disk0[p].kind = "file"}

\* the path below the numeric folder with the same relative path
Destination(p) == Rebase(p, legacyPath, numericPath)

\* the file that was at p before the run is now at q, unchanged
NowAt(p, q) == Exists(disk, q) /\ disk[q] = disk0[p]

AllLegacyFilesMoved ==
  /\ ~Exists(disk, legacyPath)
  /\ \A p \in LegacyFiles0 : NowAt(p, Destination(p))

NumericFiles0 == {p \in DOMAIN disk0 : Under(p, numericPath) /\ disk0[p].kind = "file"}

LeftBehind == {p \in LegacyFiles0 : Exists(disk, p)}

\* C16: when the numeric folder exists before the run, the merge leaves every
\* file of the numeric folder where and as it was; a legacy file whose
\* destination path is taken stays where it was, every other legacy file is at
\* its destination path; the legacy folder is removed only when nothing was left
\* behind, and a warning is logged when something was.
C16_MergeKeepsDestination ==
  (Migrated /\ isDir(disk0, legacyPath) /\ isDir(disk0, numericPath)) =>
    /\ \A q \in NumericFiles0 : NowAt(q, q)
    /\ \A p \in LegacyFiles0 :
         IF Exists(disk0, Destination(p))
         THEN NowAt(p, p)
         ELSE ~Exists(disk, p) /\ NowAt(p, Destination(p))
    /\ ~Exists(disk, legacyPath) => LeftBehind = {}
    /\ LeftBehind # {} => "warn: partially merged" \in mlog

----------------------------------------------------------------------------
\* Claims about downloadAllCommand (checked under SpecAll)

\* the on-demand courses of the account's list, in list order
RECURSIVE OnDemandIds(_)
OnDemandIds(k) ==
  IF k = 0 THEN <<>>
  ELSE IF courses[k].isOnDemand
       THEN Append(OnDemandIds(k - 1), courses[k].courseId)
       ELSE OnDemandIds(k - 1)

\* the courses whose downloadCommand call failed, with the error, in call order
RECURSIVE FailedCalls(_)
FailedCalls(k) ==
  IF k = 0 THEN <<>>
  ELSE IF courseOutcomes[k] # "ok"
       THEN Append(FailedCalls(k - 1), [courseId |-> attempted[k], error |-> courseOutcomes[k]])
       ELSE FailedCalls(k - 1)

\* C17: every on-demand course is attempted exactly once, in list order,
\* whatever the outcome of the earlier courses; the command ends only after the
\* last course, and it fails if and only if at least one course failed, with one
\* error that lists every failed course.
C17_AllCoursesAttempted ==
  apc \in {"loop", "course", "returned", "threw"} =>
    LET want == OnDemandIds(Len(courses))
    IN /\ Len(attempted) <= Len(want)
       /\ attempted = SubSeq(want, 1, Len(attempted))
       /\ apc \in {"returned", "threw"} =>
            /\ attempted = want
            /\ Len(courseOutcomes) = Len(want)
            /\ apc = "threw" <=> \E k \in 1..Len(want) : courseOutcomes[k] # "ok"
            /\ aerror = FailedCalls(Len(want))

\* three on-demand courses: the first and the last failed, the second was still
\* downloaded, and the error lists the two
C17_Witness ==
  /\ apc = "threw"
  /\ Len(attempted) = 3
  /\ courseOutcomes[1] # "ok"
  /\ courseOutcomes[2] = "ok"
  /\ courseOutcomes[3] # "ok"
  /\ Len(aerror) = 2
  /\ aerror[1].courseId = attempted[1]
  /\ aerror[2].courseId = attempted[3]

----------------------------------------------------------------------------
\* downloadCommand and failed items (checked under SpecDownload)

\* a step of the run after a downloadHlsToFile call threw, and a step that adds
\* to `downloaded`
FailureKept ==
  (dpc = "hls" /\ hpc = "threw") =>
    /\ dpc' = "failed"
    /\ herror' = herror
    /\ downloaded' = downloaded

DownloadedOnlyWhole ==
  (run' = run /\ downloaded' # downloaded) =>
    /\ downloaded' = Append(downloaded, idx)
    /\ \/ MediaExists(startFs[idx])
       \/ /\ hpc = "returned"
          /\ herror = NoError
          /\ fs[idx].content = FullContent(items[idx])

\* C18: a playlist or segment failure for an item is never taken for success:
\* the command fails with that error, and `downloaded` lists an item only if its
\* file existed with non-zero size before the run or this run wrote all its
\* segments.
C18_FailurePropagates ==
  /\ [](dpc = "failed" => hpc = "threw" /\ herror # NoError)
  /\ [](dpc = "finished" => Len(downloaded) = Len(items))
  /\ [][FailureKept /\ DownloadedOnlyWhole]_vars

\* the second item's download failed after a segment was written: the command
\* failed with the segment error and the item is not in `downloaded`
C18_Witness ==
  /\ dpc = "failed"
  /\ idx = 2
  /\ downloaded = <<1>>
  /\ herror = [message |-> SegmentError]
  /\ Len(fs[2].content) >= 1

\* ---- the normalizers

\* the payloads of either shape that describe the resource ncontent
LegacyPayloadsOf ==
  IF nresource = "course" THEN {LegacyCoursePayload(ncontent)}
  ELSE IF nresource = "chapter" THEN LegacyChapterPayloads(ncontent)
  ELSE IF nresource = "lesson" THEN LegacyLessonPayloads(ncontent)
  ELSE {}
CurrentPayloadsOf ==
  IF nresource = "course" THEN {CurrentCoursePayload(ncontent)}
  ELSE IF nresource = "chapter" THEN CurrentChapterPayloads(ncontent)
  ELSE IF nresource = "lesson" THEN CurrentLessonPayloads(ncontent)
  ELSE {}

SameOutput(a, b) ==
  /\ ~a.output.threw
  /\ ~b.output.threw
  /\ a.output.value = b.output.value

\* the two calls of the history are on a legacy and on a current payload of the
\* same resource
EquivalentPair(ka, kb) ==
  /\ ncalls[ka].input \in LegacyPayloadsOf
  /\ ncalls[kb].input \in CurrentPayloadsOf

\* C19: a legacy-shape payload and a current-shape payload that describe the
\* same course, chapter or lesson (same titles, ids, order values, section
\* kinds, video URL and references) normalize to identical output.
C19_SchemaEquivalence ==
  \A ka, kb \in DOMAIN ncalls :
    EquivalentPair(ka, kb) => SameOutput(ncalls[ka], ncalls[kb])

\* C19 away from movie sections: the equivalence for courses, lessons, and
\* chapters whose sections are lessons or of another kind
NoMovieSection ==
  nresource = "chapter" => \A k \in DOMAIN ncontent.sections : ncontent.sections[k].kind # "movie"
C19_EquivalenceWithoutMovies ==
  NoMovieSection => C19_SchemaEquivalence

\* the payload without its current-shape keys, and without its legacy key
LegacyPartAlone(input) ==
  IF nresource = "course" THEN CoursePayload(input.data, NoCoursePart)
  ELSE IF nresource = "chapter" THEN ChapterPayload(input.data, NoCurrentChapterPart, NoList)
  ELSE LessonPayload(input.data, NoCurrentLessonPart)
CurrentPartAlone(input) ==
  IF nresource = "course" THEN CoursePayload(NoCoursePart, input.course)
  ELSE IF nresource = "chapter" THEN ChapterPayload(NoLegacyChapterPart, input.chapter, input.sections)
  ELSE LessonPayload(NoLegacyLessonPart, input.lesson)

LegacyValid(input) == input.data.kind = "valid"
CurrentValid(input) ==
  IF nresource = "course" THEN input.course.kind = "valid"
  ELSE IF nresource = "chapter" THEN CurrentChapterSuccess(input)
  ELSE input.lesson.kind = "valid"

SameOutcome(a, b) ==
  /\ a.output.threw = b.output.threw
  /\ a.output.value = b.output.value

\* C20: each normalizer tries the legacy shape first: a payload valid under
\* the legacy shape (valid under the current shape or not) gives the output of
\* its legacy part alone, and a payload whose legacy shape does not match
\* gives the outcome of its current-shape part alone.
C20_LegacyFirst ==
  \A ka, kb \in DOMAIN ncalls :
    /\ (LegacyValid(ncalls[ka].input) /\ ncalls[kb].input = LegacyPartAlone(ncalls[ka].input))
          => SameOutput(ncalls[ka], ncalls[kb])
    /\ (~LegacyValid(ncalls[ka].input) /\ ncalls[kb].input = CurrentPartAlone(ncalls[ka].input))
          => SameOutcome(ncalls[ka], ncalls[kb])

\* a payload valid under both shapes, whose two parts describe different
\* resources, has been normalized, and so has its legacy part alone
ValidUnderBoth(ka, kb) ==
  /\ LegacyValid(ncalls[ka].input)
  /\ CurrentValid(ncalls[ka].input)
  /\ ncalls[kb].input = LegacyPartAlone(ncalls[ka].input)
  /\ ncalls[kb].input # ncalls[ka].input
C20_Witness ==
  /\ nresource = "chapter"
  /\ Len(ncontent.sections) > 0
  /\ \E ka, kb \in DOMAIN ncalls : ValidUnderBoth(ka, kb)

\* a payload whose legacy key fails the legacy schema went to the current shape
C20_WitnessCurrent ==
  /\ nresource = "lesson"
  /\ \E ka, kb \in DOMAIN ncalls :
       /\ ncalls[ka].input.data.kind = "invalid"
       /\ ncalls[kb].input = CurrentPartAlone(ncalls[ka].input)
       /\ ~ncalls[ka].output.threw

\* ---- the callback of one queue item

\* the video URLs a payload holds, wherever in it
PartUrls(list) ==
  {list[k].video_url.v : k \in {n \in DOMAIN list : list[n].video_url.some}}
  \cup {list[k].hls.v : k \in {n \in DOMAIN list : list[n].hls.some}}
LessonUrls(raw) ==
  (IF raw.data.kind = "none" THEN {} ELSE {raw.data.video_url})
  \cup (IF raw.lesson.kind = "none" THEN {}
        ELSE (IF raw.lesson.video_url.some THEN {raw.lesson.video_url.v} ELSE {})
             \cup (IF raw.lesson.hls.some THEN {raw.lesson.hls.v} ELSE {})
             \cup PartUrls(raw.lesson.contents) \cup PartUrls(raw.lesson.units)
             \cup PartUrls(raw.lesson.items))
MovieUrls(m) ==
  IF m.videos.some THEN {m.videos.v[k].v : k \in {n \in DOMAIN m.videos.v : m.videos.v[n].some}}
  ELSE {}
UrlsInResponse ==
  IF ~cbResponse.ok THEN {}
  ELSE (IF cbItem.kind = "movie" THEN MovieUrls(cbResponse.value) ELSE LessonUrls(cbResponse.value))
       \ {""}

InSkipped == \E k \in DOMAIN cbSkipped : cbSkipped[k].lessonId = cbItem.lessonId

\* C21: parseLessonV1 and parseMovieV2 throw when the payload holds no video
\* URL and never return an empty or made-up URL; the CourseLesson the callback
\* returns, and each of its videoItems, has a non-empty videoUrl taken from
\* the payload; an item that did not yield a URL is in skippedLessons.
C21_NoDefaultedUrl ==
  /\ cbpc \in {"got", "returned", "caught"} =>
       /\ UrlsInResponse = {} => cbParsed.threw
       /\ ~cbParsed.threw =>
            /\ cbParsed.value.videoUrl # ""
            /\ cbParsed.value.videoUrl \in UrlsInResponse
  /\ cbpc = "returned" =>
       /\ cbReturn # Null
       /\ cbReturn.videoUrl # ""
       /\ cbReturn.videoUrl \in UrlsInResponse
       /\ \A k \in DOMAIN cbReturn.videoItems :
            /\ cbReturn.videoItems[k].videoUrl # ""
            /\ cbReturn.videoItems[k].videoUrl \in UrlsInResponse
       /\ cbSkipped = <<>>
  /\ cbpc = "caught" => cbReturn = Null /\ InSkipped
  /\ (cbpc \in {"returned", "caught"} /\ UrlsInResponse = {}) => InSkipped

\* a movie whose payload passes the schema and has no URL in its first video
\* was skipped
C21_Witness ==
  /\ cbpc = "caught"
  /\ cbItem.kind = "movie"
  /\ cbParsed = NoHlsUrlInMovieError
  /\ InSkipped

\* a lesson whose payload passes the schema and has no URL was skipped
C21_WitnessLesson ==
  /\ cbpc = "caught"
  /\ cbItem.kind = "lesson"
  /\ cbParsed = NoHlsUrlError
  /\ InSkipped

\* the candidate multi-part fields of a current-shape lesson, in priority order
PartFields == <<"contents", "units", "items">>
FieldList(l, f) == IF f = 1 THEN l.contents ELSE IF f = 2 THEN l.units ELSE l.items
HasVideoUrl(p) == p.video_url.some \/ p.hls.some
\* the URLs of the parts of a list that have one, in list order
YieldedUrls(list) ==
  LET withUrl == SelectSeq(list, HasVideoUrl)
  IN [k \in DOMAIN withUrl |-> Coalesce(withUrl[k].video_url, withUrl[k].hls).v]
Yields(l, f) == YieldedUrls(FieldList(l, f)) # <<>>
FirstYielding(l) == CHOOSE f \in DOMAIN PartFields : Yields(l, f) /\ \A g \in 1..(f - 1) : ~Yields(l, g)
FirstNonEmpty(l) ==
  CHOOSE f \in DOMAIN PartFields : FieldList(l, f) # <<>> /\ \A g \in 1..(f - 1) : FieldList(l, g) = <<>>

\* a current-shape lesson payload that passed the schema has been normalized
CurrentLessonParsed ==
  /\ cbpc = "got"
  /\ cbItem.kind = "lesson"
  /\ cbResponse.ok
  /\ cbResponse.value.data.kind = "none"
  /\ cbResponse.value.lesson.kind # "none"
  /\ LessonV1CurrentSchemaOk(cbResponse.value.lesson)

\* the normalized lesson is multi-part, with the parts of field f
MultiPartOf(l, f) ==
  /\ ~cbParsed.threw
  /\ cbParsed.value.parts.some
  /\ [k \in DOMAIN cbParsed.value.parts.v |-> cbParsed.value.parts.v[k].videoUrl]
       = YieldedUrls(FieldList(l, f))
  /\ cbParsed.value.videoUrl = YieldedUrls(FieldList(l, f))[1]

\* C22: when one of contents, units, items of a current-shape lesson has a part
\* with a URL, the normalized lesson is multi-part, with the parts of the first
\* of these fields that has such a part, and the URL of the first such part as
\* its videoUrl.
C22_FirstYieldingField ==
  CurrentLessonParsed =>
    LET l == cbResponse.value.lesson
    IN (\E f \in DOMAIN PartFields : Yields(l, f)) => MultiPartOf(l, FirstYielding(l))

\* what the code does: only the first non-empty of the three fields is looked at
C22_FirstNonEmptyField ==
  CurrentLessonParsed =>
    LET l == cbResponse.value.lesson
    IN IF (\E f \in DOMAIN PartFields : FieldList(l, f) # <<>>) /\ Yields(l, FirstNonEmpty(l))
       THEN MultiPartOf(l, FirstNonEmpty(l))
       ELSE cbParsed.threw \/ ~cbParsed.value.parts.some

\* ---- getCourseChapters

\* the position of the chapter with this id in a list of chapters
PositionIn(list, id) == CHOOSE k \in DOMAIN list : list[k].id = id

SameChapters ==
  /\ Len(courseChapters) = Len(courseDetailsChapters)
  /\ \A k \in DOMAIN courseDetailsChapters :
       \E n \in DOMAIN courseChapters : courseChapters[n] = courseDetailsChapters[k]

\* among the chapters that have an order: ascending, ties in discovery order
AscendingOrder ==
  \A a, b \in DOMAIN courseChapters :
    (a < b /\ courseChapters[a].hasOrder /\ courseChapters[b].hasOrder) =>
      \/ courseChapters[a].order < courseChapters[b].order
      \/ /\ courseChapters[a].order = courseChapters[b].order
         /\ PositionIn(courseDetailsChapters, courseChapters[a].id)
              < PositionIn(courseDetailsChapters, courseChapters[b].id)

AbsentOrderStays ==
  \A k \in DOMAIN courseDetailsChapters :
    ~courseDetailsChapters[k].hasOrder => courseChapters[k] = courseDetailsChapters[k]

\* C23: getCourseChapters returns the chapters sorted by ascending order,
\* chapters of equal order in discovery order, and a chapter without an order
\* at its discovery position.
C23_SortedByOrder ==
  lpc \in {"loop", "done"} => SameChapters /\ AscendingOrder /\ AbsentOrderStays

\* what the code does: a chapter without an order sorts as if its order were 0
C23_SortedAbsentAsZero ==
  lpc \in {"loop", "done"} =>
    /\ SameChapters
    /\ \A a, b \in DOMAIN courseChapters :
         a < b =>
           \/ OrderKey(courseChapters[a]) < OrderKey(courseChapters[b])
           \/ /\ OrderKey(courseChapters[a]) = OrderKey(courseChapters[b])
              /\ PositionIn(courseDetailsChapters, courseChapters[a].id)
                   < PositionIn(courseDetailsChapters, courseChapters[b].id)

\* ---- the work queue of resolveCourseLessons

\* the lesson and movie sections of the selected chapters, in chapter order
\* then section order, as queue entries
RECURSIVE LectureEntriesFrom(_)
LectureEntriesFrom(k) ==
  IF k > Len(selectedChapters) THEN <<>>
  ELSE LET secs == LectureSections(selectedChapters[k].sections)
       IN [n \in DOMAIN secs |->
             [chapter |-> selectedChapters[k].id, lessonId |-> secs[n].id, kind |-> secs[n].kind,
              lessonTitle |-> Truthy(secs[n].title)]]
          \o LectureEntriesFrom(k + 1)
AllLectureEntries == LectureEntriesFrom(1)

\* limitLessons is a number: the cap L, a fractional L counting as its floor
\* and a negative one as 0
LimitIsSet == limitLessons.set /\ ~limitLessons.nan
Cap == Max(0, Floor(limitLessons.halves))

\* C24: with limitLessons = L the work queue is the first min(L, N) of the N
\* lesson and movie sections of the selected chapters, in chapter order then
\* section order, the cap counting across chapters; no more than L resolutions
\* are requested.
C24_GlobalCap ==
  LimitIsSet =>
    /\ Len(workQueue) <= Cap
    /\ Len(requested) <= Cap
    /\ IsPrefix(requested, workQueue)
    /\ qpc \in {"resolve", "done"} =>
         workQueue = SubSeq(AllLectureEntries, 1, Min(Cap, Len(AllLectureEntries)))

\* a cap of 2 was reached in the second chapter of three chapters with
\* lessons, and the two items were requested
C24_Witness ==
  /\ qpc = "done"
  /\ limitLessons = Limit(4)
  /\ Len(workQueue) = 2
  /\ workQueue[1].chapter # workQueue[2].chapter
  /\ Len(AllLectureEntries) > 3
  /\ requested = workQueue

\* without a usable limit (undefined or NaN) every lecture section is queued
C24_NoLimitQueuesAll ==
  (~LimitIsSet /\ qpc \in {"resolve", "done"}) => workQueue = AllLectureEntries

\* ---- the batches of step 3 (checked under SpecResolveLive)

\* max(1, floor(maxConcurrency)), the batch size the claim speaks of
ClampedConcurrency == IF maxConcurrencyParam.nan THEN 1 ELSE Max(1, maxConcurrencyParam.v)
InFlight == {p \in DOMAIN resolved : resolved[p] = Pending}
Started(p) == p \in DOMAIN resolved \/ outcome[p] # "none"
BatchOf(p) == (p - 1) \div ClampedConcurrency

BoundedInFlight == Cardinality(InFlight) <= ClampedConcurrency
BatchAfterBatch ==
  \A p, q \in DOMAIN queue :
    (Started(q) /\ BatchOf(p) < BatchOf(q)) => (outcome[p] # "none" /\ p \notin InFlight)
AllAttempted == \A p \in DOMAIN queue : outcome[p] # "none"

\* C25: at most max(1, floor(maxConcurrency)) resolutions are in flight, a
\* batch starts only when the batch before it has settled, and for every
\* maxConcurrency every queue item is eventually attempted.
C25_BoundedBatches ==
  /\ [](BoundedInFlight /\ BatchAfterBatch)
  /\ <>AllAttempted

\* C25 for every maxConcurrency that is a number (0 and negative included)
C25_BoundedBatchesOfNumbers ==
  /\ [](BoundedInFlight /\ BatchAfterBatch)
  /\ ~maxConcurrencyParam.nan => <>AllAttempted
----------------------------------------------------------------------------
\* C26 .. C29: buildCookieHeader

\* the name=value pairs of a built header: split at ';', one leading blank dropped
HeaderPairs(header) ==
  IF header = <<>> THEN <<>>
  ELSE LET parts == Split(header, ";")
       IN [k \in DOMAIN parts |->
             IF k > 1 /\ StartsWith(parts[k], <<" ">>) THEN Tail(parts[k]) ELSE parts[k]]

Built == kpc = "built"
\* the header was computed from the parsed cookies, not returned from the raw header
FromParsedCookies == Built /\ ~(session.hasCookieHeader /\ TrimString(session.cookieHeader) # <<>>)
CookieAt(k) == session.cookies[k]
\* the pair of the k-th cookie is in the header (a value names its position)
Included(k) == \E p \in DOMAIN HeaderPairs(cookieHeaderOut) :
                 HeaderPairs(cookieHeaderOut)[p] = PairString(CookieAt(k))
InThePast(c) == c.expires.some /\ c.expires.v # -1 /\ c.expires.v < nowSec
NeverExpires(c) == ~c.expires.some \/ c.expires.v = -1
DomainOf(c) == IF c.domain.some THEN c.domain.v ELSE targetUrl.hostname
PathOf(c) == IF c.path.some THEN c.path.v ELSE <<"/">>
\* the domain equals the host, or begins with a dot and the host ends with it
DomainMatchesAsStated(c) ==
  \/ DomainOf(c) = targetUrl.hostname
  \/ StartsWith(DomainOf(c), <<".">>) /\ EndsWith(targetUrl.hostname, DomainOf(c))
PathIsPrefix(c) == StartsWith(targetUrl.pathname, PathOf(c))
\* a later cookie of the same name took the place of the k-th in the header
Superseded(k) == \E j \in DOMAIN session.cookies :
                   j > k /\ CookieAt(j).name = CookieAt(k).name /\ Included(j)

\* C26: a header built from the parsed cookies never holds a cookie whose
\* expires is a time in the past, and a cookie whose expires is absent or -1
\* and whose domain and path match the target URL is in the header (or a later
\* cookie of the same name is, in its place).
C26_ExpiryFilter ==
  FromParsedCookies =>
    \A k \in DOMAIN session.cookies :
      /\ InThePast(CookieAt(k)) => ~Included(k)
      /\ (NeverExpires(CookieAt(k)) /\ DomainMatchesAsStated(CookieAt(k)) /\ PathIsPrefix(CookieAt(k)))
           => (Included(k) \/ Superseded(k))

\* a matching cookie with a past expires was left out and a cookie with
\* expires -1 and one with no expires were sent
C26_Witness ==
  /\ FromParsedCookies
  /\ \E k \in DOMAIN session.cookies :
       /\ InThePast(CookieAt(k)) /\ DomainMatchesAsStated(CookieAt(k)) /\ PathIsPrefix(CookieAt(k))
       /\ ~Included(k)
  /\ \E k \in DOMAIN session.cookies :
       CookieAt(k).expires = SomeNum(-1) /\ Included(k)

C26_WitnessAbsent ==
  /\ FromParsedCookies
  /\ \E k \in DOMAIN session.cookies : CookieAt(k).expires = NoNum /\ Included(k)
  /\ \E k \in DOMAIN session.cookies : CookieAt(k).expires = SomeNum(nowSec + 1) /\ Included(k)

\* the text of a pair before its first '='
NameOfPair(pair) == IF IndexOf(pair, "=") > 0 THEN SubSeq(pair, 1, IndexOf(pair, "=") - 1) ELSE pair
Passed(k) == PassesFilter(CookieAt(k), targetUrl, nowSec)
LastPassedOfName(k) ==
  /\ Passed(k)
  /\ \A j \in DOMAIN session.cookies : (j > k /\ CookieAt(j).name = CookieAt(k).name) => ~Passed(j)

\* C27: in a header built from the parsed cookies every cookie name occurs at
\* most once, the pair of a name is that of the last cookie of the name that
\* passed the filter, every name that passed has its pair, and the header is
\* the pairs name=value joined by "; ".
C27_LastWriteWins ==
  FromParsedCookies =>
    LET hp == HeaderPairs(cookieHeaderOut)
    IN /\ \A p, q \in DOMAIN hp : NameOfPair(hp[p]) = NameOfPair(hp[q]) => p = q
       /\ \A p \in DOMAIN hp :
            \E k \in DOMAIN session.cookies : LastPassedOfName(k) /\ hp[p] = PairString(CookieAt(k))
       /\ \A k \in DOMAIN session.cookies :
            LastPassedOfName(k) => \E p \in DOMAIN hp : hp[p] = PairString(CookieAt(k))
       /\ cookieHeaderOut = Join(hp, <<";", " ">>)

\* two cookies of one name passed the filter and the header has the later one,
\* next to a cookie of another name
C27_Witness ==
  /\ FromParsedCookies
  /\ \E j, k \in DOMAIN session.cookies :
       /\ j < k /\ CookieAt(j).name = CookieAt(k).name
       /\ Passed(j) /\ Passed(k) /\ Included(k) /\ ~Included(j)

C27_WitnessTwoNames ==
  /\ FromParsedCookies
  /\ Len(HeaderPairs(cookieHeaderOut)) = 2
  /\ \E k \in DOMAIN session.cookies : Included(k) /\ IndexOf(CookieAt(k).value, "=") > 0

\* the host is a sub-domain of the domain
SubDomainOf(host, domain) == host # domain /\ EndsWith(host, <<".">> \o domain)

\* C28: a cookie is in a header built from the parsed cookies only if its
\* domain equals the target host or begins with a dot and the host ends with
\* it, and its path is a prefix of the target path; a cookie whose domain has
\* no leading dot is not sent to a sub-domain of that domain.
C28_DomainAndPath ==
  FromParsedCookies =>
    \A k \in DOMAIN session.cookies :
      Included(k) =>
        /\ DomainMatchesAsStated(CookieAt(k))
        /\ PathIsPrefix(CookieAt(k))
        /\ ~(~StartsWith(DomainOf(CookieAt(k)), <<".">>)
             /\ SubDomainOf(targetUrl.hostname, DomainOf(CookieAt(k))))

\* C28, with the match the code makes: the leading dot of the domain is
\* dropped, and the host is that domain or ends with a dot and that domain
C28_DomainWithoutDot ==
  FromParsedCookies =>
    \A k \in DOMAIN session.cookies :
      Included(k) =>
        /\ LET cd == IF StartsWith(DomainOf(CookieAt(k)), <<".">>)
                     THEN Tail(DomainOf(CookieAt(k))) ELSE DomainOf(CookieAt(k))
           IN targetUrl.hostname = cd \/ SubDomainOf(targetUrl.hostname, cd)
        /\ PathIsPrefix(CookieAt(k))

LegacyLoaded == kpc # "file" /\ storedSession.shape = "legacy"
Blank(s) == TrimString(s) = <<>>

\* C29: for a session loaded from the legacy shape, the header returned for
\* every target URL is the raw header of the file.
C29_LegacyVerbatim ==
  (Built /\ LegacyLoaded) => cookieHeaderOut = storedSession.cookies

\* C29, amended: the raw header is returned as it is when it holds a
\* character that is not white space; a raw header that is empty or white
\* space only gives the empty header.
C29_LegacyVerbatimUnlessBlank ==
  (Built /\ LegacyLoaded) =>
    cookieHeaderOut = (IF Blank(storedSession.cookies) THEN <<>> ELSE storedSession.cookies)

\* a legacy raw header was returned as it is for a host that none of its
\* parsed cookies matches
C29_Witness ==
  /\ Built /\ LegacyLoaded
  /\ session.cookies # <<>>
  /\ \A k \in DOMAIN session.cookies : ~Passed(k)
  /\ cookieHeaderOut = storedSession.cookies
  /\ cookieHeaderOut # TrimString(cookieHeaderOut)

C29_WitnessBlank ==
  /\ Built /\ LegacyLoaded
  /\ storedSession.cookies # <<>>
  /\ cookieHeaderOut = <<>>
----------------------------------------------------------------------------
\* C30: the media file paths (checked under SpecPaths)

\* the 1-based position of the chapter in the full course's chapter list
ChapterIndexInCourse(chapterId) ==
  CHOOSE k \in DOMAIN courseChapters : courseChapters[k].id = chapterId
\* the digit count of the full course's chapter count, at least 2
ChapterIndexWidth == Max(2, Len(Digits(Len(courseChapters))))
\* the 1-based position of the lesson among the lessons of its chapter in the
\* CourseStructure
IndexWithinChapter(lesson) ==
  Cardinality({k \in DOMAIN structure.lessons :
                 /\ structure.lessons[k].chapterId = lesson.chapterId
                 /\ structure.lessons[k].lessonId <= lesson.lessonId})
\* the 1-based position of the turn among the turns of the run's loop for
\* lessons of the same chapter
IndexWithinRun(e) ==
  Cardinality({k \in 1..e.pos : runLessons[k].chapterId = e.lesson.chapterId})
HasManyItems(lesson) == Len(lesson.videoItems) > 1
\* course-<courseId>/<chapterIndex>/<lessonIndex>/lesson-<lessonId>[_part-<n>].ts
StatedPath(e, lessonIndex) ==
  << <<"course-">> \o Digits(structure.courseId),
     PadStart(Digits(ChapterIndexInCourse(e.lesson.chapterId)), ChapterIndexWidth),
     PadStart(Digits(lessonIndex), 2),
     <<"lesson-">> \o Digits(e.lesson.lessonId)
       \o (IF HasManyItems(e.lesson) THEN <<"_part-">> \o Digits(e.itemIndex) ELSE <<>>)
       \o <<".ts">> >>

\* C30: every media file of a run is at
\* course-<courseId>/<chapterIndex>/<lessonIndex>/lesson-<lessonId>[_part-<n>].ts
\* with chapterIndex padded to the digit count of the course's chapter count
\* (at least 2), lessonIndex the 1-based index of the lesson within its chapter
\* padded to 2 digits, and _part-<n> if and only if the lesson has more than
\* one video item.
C30_MediaFilePath ==
  \A k \in DOMAIN outFilePaths :
    outFilePaths[k].path = StatedPath(outFilePaths[k], IndexWithinChapter(outFilePaths[k].lesson))

\* C30, with the lessonIndex the code counts: the position of the lesson
\* among the lessons of its chapter that this run has gone through
C30_MediaFilePathOfRun ==
  \A k \in DOMAIN outFilePaths :
    outFilePaths[k].path = StatedPath(outFilePaths[k], IndexWithinRun(outFilePaths[k]))

\* a run without --lesson-ids wrote the two parts of the second lesson of the
\* last of twelve chapters
C30_WitnessWholeStructure ==
  /\ ppc = "done"
  /\ ~paramLessonIds.some
  /\ \E k \in DOMAIN outFilePaths :
       /\ outFilePaths[k].path[2] = <<1, 2>>
       /\ outFilePaths[k].path[3] = <<0, 2>>
       /\ outFilePaths[k].itemIndex = 3
----------------------------------------------------------------------------
\* C31: --first-lecture-only (checked under SpecFirst)

FirstRunOver == flpc \in {"done", "failed"}
\* the lesson/movie sections of the selected chapters that resolve, in
\* chapter-then-section order
ResolvableKeys ==
  SelectSeq(LectureKeys(selectedChapters), LAMBDA key : key \notin unresolvable)
DownloadedKeys == [k \in DOMAIN downloadedLessons |-> KeyOf(downloadedLessons[k])]

\* C31: with firstLectureOnly set, a run over chapters that hold a resolvable
\* lesson downloads exactly one lesson, the first that resolves in
\* chapter-then-section order.
C31_FirstResolvedLesson ==
  (FirstRunOver /\ firstLectureOnly /\ ResolvableKeys # <<>>) =>
    (flpc = "done" /\ DownloadedKeys = <<ResolvableKeys[1]>>)

\* C31, for the first lesson/movie section alone: the run downloads it when it
\* resolves, and fails without a download when it does not resolve or when the
\* selected chapters have no such section
C31_FirstSectionOrNothing ==
  (FirstRunOver /\ firstLectureOnly) =>
    IF LectureKeys(selectedChapters) # <<>> /\ LectureKeys(selectedChapters)[1] \notin unresolvable
    THEN flpc = "done" /\ DownloadedKeys = <<LectureKeys(selectedChapters)[1]>>
    ELSE flpc = "failed" /\ DownloadedKeys = <<>>

\* the first section of the run resolved and was the one lesson downloaded,
\* although later sections resolve too
C31_WitnessFirst ==
  /\ flpc = "done" /\ firstLectureOnly
  /\ Len(ResolvableKeys) >= 2
  /\ DownloadedKeys = <<ResolvableKeys[1]>>

\* the first section did not resolve, a later one does, and the run failed
C31_WitnessFailed ==
  /\ flpc = "failed" /\ firstLectureOnly
  /\ ResolvableKeys # <<>>
  /\ Len(resolvedStructure.skippedLessons) = 1
----------------------------------------------------------------------------
\* C32: resolveFirstLecture (checked under SpecPreview)

\* the chapter that comes first when the chapters that have an order are put
\* in ascending order (ties in the order listed) and a chapter without an
\* order stays where it was listed
FirstByOrder ==
  IF ~previewChapters[1].hasOrder THEN previewChapters[1]
  ELSE previewChapters[CHOOSE k \in DOMAIN previewChapters :
         /\ previewChapters[k].hasOrder
         /\ \A j \in DOMAIN previewChapters :
              previewChapters[j].hasOrder =>
                \/ previewChapters[k].order < previewChapters[j].order
                \/ previewChapters[k].order = previewChapters[j].order /\ k <= j]
\* the chapter that comes first when an absent order counts as 0
FirstWithAbsentAsZero ==
  previewChapters[CHOOSE k \in DOMAIN previewChapters :
    \A j \in DOMAIN previewChapters :
      \/ OrderKey(previewChapters[k]) < OrderKey(previewChapters[j])
      \/ OrderKey(previewChapters[k]) = OrderKey(previewChapters[j]) /\ k <= j]
PreviewOver == vpc \in {"returned", "threw"}
IsPrefixOf(s, t) == Len(s) <= Len(t) /\ SubSeq(t, 1, Len(s)) = s
\* the calls a resolveFirstLecture on this course may make, for its first chapter c
CallsFor(c) ==
  <<DetailCall("course", 0, 0), DetailCall("chapter", c.id, 0)>> \o
    (IF LectureSections(previewSections) = <<>> THEN <<>>
     ELSE <<DetailCall(LectureSections(previewSections)[1].kind, c.id,
                       LectureSections(previewSections)[1].id)>>)
OneUnitOf(c) ==
  /\ IsPrefixOf(detailCalls, CallsFor(c))
  /\ vpc = "returned" =>
       /\ detailCalls = CallsFor(c)
       /\ Len(detailCalls) = 3
       /\ previewResult = ResolvedLecture(c.id, LectureSections(previewSections)[1].id)
  /\ (vpc = "threw" /\ Len(detailCalls) = 2 /\ previewSections # <<>>) =>
       LectureSections(previewSections) = <<>>

\* C32: resolveFirstLecture resolves the first lesson/movie section of the
\* chapter that comes first by order and nothing else: its calls are the
\* course details, the details of that chapter and the one lesson or movie;
\* it throws when the course has no chapter or that chapter has no
\* lesson/movie section.
C32_FirstUnit ==
  IF previewChapters = <<>>
  THEN /\ vpc # "returned"
       /\ Len(detailCalls) <= 1
       /\ PreviewOver => vpc = "threw"
  ELSE /\ Len(detailCalls) >= 2 => OneUnitOf(FirstByOrder)
       /\ (PreviewOver /\ previewSections # <<>> /\ LectureSections(previewSections) = <<>>)
            => vpc = "threw"

\* C32, with an absent order counting as 0 in the choice of the first chapter
C32_FirstUnitAbsentAsZero ==
  IF previewChapters = <<>>
  THEN /\ vpc # "returned"
       /\ Len(detailCalls) <= 1
       /\ PreviewOver => vpc = "threw"
  ELSE /\ Len(detailCalls) >= 2 => OneUnitOf(FirstWithAbsentAsZero)
       /\ (PreviewOver /\ previewSections # <<>> /\ LectureSections(previewSections) = <<>>)
            => vpc = "threw"

\* the call returned the movie that follows a section of another kind, in the
\* chapter of order 1 that the server listed last of three
C32_Witness ==
  /\ vpc = "returned"
  /\ Len(previewChapters) = 3
  /\ firstChapter = previewChapters[3]
  /\ previewSections[1].kind = "other" \/ Len(previewSections) = 2
  /\ Len(detailCalls) = 3
----------------------------------------------------------------------------
\* C33: the cookie names of a loaded session (checked under SpecCookie)

SessionLoaded == kpc # "file"

\* C33: after SessionStore.load, from a file in the current shape or in the
\* legacy shape, every cookie of the session has a non-empty name.
C33_NamesNonEmpty ==
  SessionLoaded => \A k \in DOMAIN session.cookies : session.cookies[k].name # <<>>

\* C33, for the legacy shape alone
C33_LegacyNamesNonEmpty ==
  (SessionLoaded /\ storedSession.shape = "legacy") =>
    \A k \in DOMAIN session.cookies : session.cookies[k].name # <<>>

\* a legacy header with a part that has no name was loaded: the part is left
\* out and the other part is a cookie
C33_WitnessLegacy ==
  /\ SessionLoaded /\ storedSession.shape = "legacy"
  /\ StartsWith(storedSession.cookies, <<"=">>)
  /\ Len(session.cookies) = 1
----------------------------------------------------------------------------
\* C34: when step 3 writes its result lists (checked under SpecResolve)

\* an item of the current batch has not settled (read after the write)
BatchInFlight == rpc = "await" /\ InFlight # {}

\* the queue position of an entry of skippedLessons
QueuePositionOf(entry) ==
  CHOOSE p \in 1..Len(queue) :
    queue[p].chapterId = entry.chapterId /\ queue[p].lessonId = entry.lessonId

InEnqueueOrder(entries) ==
  \A a, b \in 1..Len(entries) :
    a < b => QueuePositionOf(entries[a]) < QueuePositionOf(entries[b])

\* C34, the lessons half: lessons is extended only after the batch has joined
C34_LessonsAfterJoin ==
  [][lessons' # lessons => ~BatchInFlight']_vars

\* C34, the order half: the entries of skippedLessons are in enqueue order
C34_SkippedInEnqueueOrder ==
  InEnqueueOrder(skippedLessons)

\* C34: neither lessons nor skippedLessons is written while an item of the
\* current batch is still in flight, both are extended only after the batch has
\* joined.
C34_WrittenAfterJoin ==
  [][(lessons' # lessons \/ skippedLessons' # skippedLessons) => ~BatchInFlight']_vars
----------------------------------------------------------------------------
\* C35: filesystem failures of the migration (checked under SpecMigrate)

\* the step of the loop that runs migrateLegacyChapterDir
MigrationStep == ~Migrated /\ Migrated'

\* a legacy directory whose destination is taken by a regular file
BlockedDirs ==
  {p \in DOMAIN disk : /\ Under(p, legacyPath)
                       /\ isDir(disk, p)
                       /\ Exists(disk, Destination(p))
                       /\ ~isDir(disk, Destination(p))}

\* C35: a filesystem failure in a step of the legacy chapter-folder migration
\* never makes downloadCommand fail: after the migration the run goes on with
\* the lesson folders of the chapter.
C35_MigrationNeverFails ==
  [][MigrationStep => mpc' = "mkdir"]_vars

\* C35, the same for the runs whose numeric chapter folder is a folder already,
\* so that the lesson folders can be made
C35_MigrationNeverFailsMerge ==
  [][(MigrationStep /\ isDir(disk, numericPath)) => mpc' = "mkdir"]_vars

\* C35, what holds: the migration fails the run only when a legacy directory
\* finds a regular file at its destination; every other failed rename, stat or
\* rmdir is swallowed
C35_FailsOnlyOnBlockedDir ==
  [][(MigrationStep /\ BlockedDirs = {}) => mpc' = "mkdir"]_vars
----------------------------------------------------------------------------
\* C36: the Cookie header of the playlist and segment requests (checked under SpecSend)

\* the Cookie header buildCookieHeader computes for the URL of a request
CookieFor(url) == CookieEntry(buildCookieHeader(dlSession, url, dlNow))

\* the pair of cookie c is in the Cookie header of request r
SentIn(c, r) ==
  /\ r.cookie.some
  /\ \E p \in DOMAIN HeaderPairs(r.cookie.v) : HeaderPairs(r.cookie.v)[p] = PairString(c)

\* C36, the first half: each playlist and segment request carries the header
\* buildCookieHeader computes for that request's own URL
C36_HeaderOfOwnUrl ==
  \A k \in DOMAIN sentRequests : sentRequests[k].cookie = CookieFor(sentRequests[k].url)

\* C36: the Cookie header of each playlist and segment request is the one of
\* the request's own URL: a cookie whose domain does not match the host of the
\* playlist or segment server is never sent to that server.
C36_NoCookieForOtherHost ==
  \A k \in DOMAIN sentRequests : \A j \in DOMAIN dlSession.cookies :
    LET c == dlSession.cookies[j]
        r == sentRequests[k]
    IN (c.domain.some /\ ~domainMatches(c.domain.v, r.url.hostname)) => ~SentIn(c, r)

\* C36, what the requests carry: the header of https://www.nnn.ed.nico/
C36_HeaderOfWww ==
  \A k \in DOMAIN sentRequests : sentRequests[k].cookie = CookieFor(WwwUrl)
----------------------------------------------------------------------------
\* C37: the delays of fetchJsonWithRetry (checked under SpecFetch)

\* d = min(maxDelayMs, minDelayMs * 2^a)
StatedDelay(a) == Min(MaxDelayMs, MinDelayMs * (2 ^ a))

\* j is an integer with 0 <= j < min(250, d), and j = 0 when d = 0
StatedJitter(j, d) == IF d = 0 THEN j = 0 ELSE j >= 0 /\ j < Min(250, d)

\* a delay() was awaited in the step
DelayWaited == delays' = delays + 1

\* C37, the delay: the delay waited after failed attempt number a is d + j
C37_DelayAfterAttempt ==
  [][DelayWaited =>
       /\ fpc = "backoff"
       /\ attempt' = attempt + 1
       /\ StatedJitter(waited' - StatedDelay(attempt), StatedDelay(attempt))]_vars

\* C37, when delays are waited: one before every retry, none before the first
\* attempt and none after the last one
C37_DelaysBetweenAttempts ==
  /\ delays = attempt
  /\ requests = 0 => delays = 0
  /\ fresult # NoResult => delays = requests - 1

\* C37: before the retry that follows failed attempt number a (a = 0 for the
\* first attempt) fetchJsonWithRetry waits d + j milliseconds, where
\* d = min(maxDelayMs, minDelayMs * 2^a) and 0 <= j < min(250, d); no delay is
\* waited before the first attempt or after the last one.
C37_Backoff ==
  /\ [](C37_DelaysBetweenAttempts)
  /\ C37_DelayAfterAttempt

\* the call has waited the capped delay with the largest jitter after its fifth
\* failed attempt, and has returned after the retry
C37_Witness ==
  /\ fresult # NoResult
  /\ delays = 5
  /\ waited = MaxDelayMs + 249
  /\ requests = 6

\* the first delay is the least one and a retry followed it
C37_WitnessFirstDelay ==
  /\ delays = 1
  /\ waited = MinDelayMs
  /\ requests = 2
----------------------------------------------------------------------------
\* C38: the folder of a chapter that the course chapter list lacks (checked
\* under SpecFallback)

ListedIds == {courseDetailsChapters[k].id : k \in DOMAIN courseDetailsChapters}
Unlisted(id) == id \notin ListedIds
FirstUse(k) == \A j \in 1..(k - 1) : lookups[j].id # lookups[k].id
\* the unlisted chapters looked up before lookup k
UnlistedBefore(k) == {lookups[j].id : j \in {x \in 1..(k - 1) : Unlisted(lookups[x].id)}}
\* the position of a listed chapter in the sorted course chapter list
ListedIndex(id) == CHOOSE n \in DOMAIN courseChapters : courseChapters[n].id = id

\* C38: a chapter id that is absent from the course chapter list gets, on first
\* use, the next-available index, assigned to no other chapter, with a warning;
\* every later lookup of the same chapter returns the same folder name without
\* a new warning, and two different absent chapters get different indices.
C38_FallbackIndex ==
  \A k \in DOMAIN lookups :
    /\ (Unlisted(lookups[k].id) /\ FirstUse(k)) =>
         /\ lookups[k].warned
         /\ lookups[k].name =
              padChapter(Len(courseChapters) + Cardinality(UnlistedBefore(k)) + 1)
    /\ ~FirstUse(k) => ~lookups[k].warned
    /\ ~Unlisted(lookups[k].id) =>
         /\ ~lookups[k].warned
         /\ lookups[k].name = padChapter(ListedIndex(lookups[k].id))
    /\ \A j \in DOMAIN lookups :
         (lookups[j].id = lookups[k].id) <=> (lookups[j].name = lookups[k].name)

\* two unlisted chapters were looked up, the first of them twice, in a course
\* that lists two chapters
C38_Witness ==
  /\ lpc = "done"
  /\ Len(courseChapters) = 2
  /\ Len(lookups) = 3
  /\ Unlisted(lookups[1].id)
  /\ lookups[3].id = lookups[1].id
  /\ Unlisted(lookups[2].id) /\ lookups[2].id # lookups[1].id
  /\ lookups[1].name = <<0, 3>> /\ lookups[2].name = <<0, 4>> /\ lookups[3].name = <<0, 3>>
  /\ lookups[1].warned /\ lookups[2].warned /\ ~lookups[3].warned
----------------------------------------------------------------------------
\* C39: when the legacy migration of a chapter is attempted (checked under
\* SpecFallback)

MigrationsOf(id) == {k \in DOMAIN loopEvents : loopEvents[k].op = "migrate" /\ loopEvents[k].id = id}
\* the lessons of the run that the loop has reached
Reached == 1..Len(lookups)
FirstLessonOf(id) == CHOOSE p \in DOMAIN lessonChapters :
                       /\ lessonChapters[p] = id
                       /\ \A q \in 1..(p - 1) : lessonChapters[q] # id

\* C39: in one run the legacy migration of a chapter is attempted exactly once,
\* at the first lesson of that chapter, before the run makes any folder under
\* the chapter's numeric folder; it is not attempted for a chapter that has no
\* lesson to download.
C39_MigratedOnceFirst ==
  /\ \A id \in ChapterIds \cup UnlistedIds :
       /\ Cardinality(MigrationsOf(id)) <= 1
       /\ (\A p \in DOMAIN lessonChapters : lessonChapters[p] # id) => MigrationsOf(id) = {}
       /\ \A k \in MigrationsOf(id) : loopEvents[k].pos = FirstLessonOf(id)
  /\ \A p \in Reached : MigrationsOf(lessonChapters[p]) # {}
  /\ \A k \in DOMAIN loopEvents :
       loopEvents[k].op = "mkdir" =>
         \E j \in 1..(k - 1) :
           /\ loopEvents[j].op = "migrate"
           /\ loopEvents[j].id = loopEvents[k].id
           /\ loopEvents[j].dir = loopEvents[k].dir

\* a run over three lessons, the first and the last of one chapter, has ended:
\* two migrations and three lesson folders
C39_Witness ==
  /\ lpc = "done"
  /\ Len(lessonChapters) = 3
  /\ lessonChapters[1] = lessonChapters[3]
  /\ lessonChapters[2] # lessonChapters[1]
  /\ Len(loopEvents) = 5
  /\ loopEvents[1].op = "migrate" /\ loopEvents[2].op = "mkdir"
  /\ loopEvents[3].op = "migrate" /\ loopEvents[4].op = "mkdir"
  /\ loopEvents[5].op = "mkdir" /\ loopEvents[5].id = loopEvents[1].id
----------------------------------------------------------------------------
\* C40: the lesson folder of a lesson in two runs (checked under SpecRuns)

SameMedia(e, f) == e.lesson.lessonId = f.lesson.lessonId /\ e.itemIndex = f.itemIndex
\* the lessons of the same chapter that a run went through before the entry
EarlierInChapter(entries, e) ==
  {entries[k].lesson.lessonId : k \in {x \in DOMAIN entries :
      entries[x].pos < e.pos /\ entries[x].lesson.chapterId = e.lesson.chapterId}}

\* C40: the lesson folder index of a lesson is the same in every run over the
\* same course, whatever other lessons of the chapter failed resolution or were
\* left out by lessonIds in a run, so a media file downloaded by an earlier run
\* is found, and skipped, by a later run.
C40_SameFolderInEveryRun ==
  runNumber = 2 =>
    \A a \in DOMAIN earlierFiles : \A b \in DOMAIN outFilePaths :
      SameMedia(earlierFiles[a], outFilePaths[b]) =>
        /\ outFilePaths[b].path[3] = earlierFiles[a].path[3]
        /\ outFilePaths[b].path \in skippedFiles

\* C40, for the runs that go through the same lessons of the chapter before
\* the lesson: the folder is the same and the file is skipped
C40_SameFolderAfterSameLessons ==
  runNumber = 2 =>
    \A a \in DOMAIN earlierFiles : \A b \in DOMAIN outFilePaths :
      (/\ SameMedia(earlierFiles[a], outFilePaths[b])
       /\ Cardinality(EarlierInChapter(earlierFiles, earlierFiles[a]))
            = Cardinality(EarlierInChapter(outFilePaths, outFilePaths[b]))) =>
        /\ outFilePaths[b].path = earlierFiles[a].path
        /\ outFilePaths[b].path \in skippedFiles

\* the second run selected another set of lessons and still found and skipped
\* a file of the first run
C40_Witness ==
  /\ runNumber = 2 /\ ppc = "done"
  /\ Len(earlierFiles) = 3
  /\ Len(outFilePaths) = 1
  /\ skippedFiles # {}

====
